---- MODULE Spec2Model ----
(***************************************************************************)
(* Model of the space picker of bomanaps/upload-service (packages/ui,      *)
(* react): the search/filter/sort hook, the selection hook, the picker     *)
(* context built on both, the debounce and throttle helpers, the search    *)
(* box, and the operation and retry hooks.                                 *)
(*                                                                         *)
(* Strings of the program are sequences of one-character strings, so that  *)
(* toLowerCase, includes, trim, replace and localeCompare are computed.    *)
(* An optional value (x | undefined) is a sequence of length 0 or 1.       *)
(***************************************************************************)
EXTENDS Integers, Sequences, FiniteSets, TLC

\* ------------------------------------------------------------------ bounds
MaxSpaces == 3          \* longest `spaces` list given to useSpaceSearch
MaxPickerSpaces == 2    \* longest `spaces` list given to the picker provider
MaxTime == 6            \* the clock stops here
MaxCalls == 4           \* calls of a debounced or throttled wrapper
DebounceWait == 2       \* the `wait` given to debounce, in ticks
ThrottleLimit == 2      \* the `limit` given to throttle, in ticks
MaxOps == 3             \* operation calls made on useSpaceOperations
MaxRetryRuns == 2       \* calls of executeWithRetry
MaxTextLen == 2         \* longest generated name or grantee given to a validator
MaxCapabilities == 2    \* longest generated capability list
MaxBatchRun == 1        \* longest generated run of files, the runs at the limits apart
MaxAccounts == 2        \* longest accounts list given to useSpaceValidation
MaxAccountChanges == 2  \* changes of the accounts list after mount
ThrottleDelay == 2      \* the `delay` given to useThrottle, in ticks

\* ----------------------------------------------------------------- strings
Undefined == <<>>
Some(x) == <<x>>
IsDefined(o) == o # <<>>
Get(o) == o[1]

Range(s) == {s[i] : i \in DOMAIN s}

Uppers == <<"A","B","C","D","E","F","G","H","I","J","K","L","M",
            "N","O","P","Q","R","S","T","U","V","W","X","Y","Z">>
Lowers == <<"a","b","c","d","e","f","g","h","i","j","k","l","m",
            "n","o","p","q","r","s","t","u","v","w","x","y","z">>
Digits == <<"0","1","2","3","4","5","6","7","8","9">>

toLowerChar(c) ==
  IF \E i \in DOMAIN Uppers : Uppers[i] = c
  THEN Lowers[CHOOSE i \in DOMAIN Uppers : Uppers[i] = c]
  ELSE c

\* String.prototype.toLowerCase
toLowerCase(s) == [i \in DOMAIN s |-> toLowerChar(s[i])]

\* String.prototype.includes
includes(s, q) ==
  \E i \in 0..(Len(s) - Len(q)) : SubSeq(s, i + 1, i + Len(q)) = q

\* Collation order of the characters the model uses (blank, punctuation,
\* digits, letters), as String.prototype.localeCompare orders them once the
\* strings are lower-cased.
CollationOrder == <<" ", ":", ".">> \o Digits \o Lowers

Rank(c) == CHOOSE i \in DOMAIN CollationOrder : CollationOrder[i] = c

RECURSIVE localeCompare(_, _)
localeCompare(a, b) ==
  IF a = <<>> /\ b = <<>> THEN 0
  ELSE IF a = <<>> THEN -1
  ELSE IF b = <<>> THEN 1
  ELSE IF Rank(a[1]) < Rank(b[1]) THEN -1
  ELSE IF Rank(a[1]) > Rank(b[1]) THEN 1
  ELSE localeCompare(Tail(a), Tail(b))

\* ------------------------------------------------------------------ spaces
\* A Space object: `ref` is the object's identity, did the value of did(),
\* name an optional string, access the optional access.type.
Space(ref, did, name, access) ==
  [ref |-> ref, did |-> did, name |-> name, access |-> access]

DidKey == <<"d","i","d",":","k","e","y",":">>
LongDidA == DidKey \o <<"z","6","M","k","h","a","X","g","B","Z","D","v","o","t">>
LongDidB == DidKey \o <<"z","6","M","k","w","b","A","g","B","Z","D","v","o","t">>

SpacePool ==
  { Space(1, DidKey \o <<"1">>, Some(<<"Z","e","b","r","a">>), Some("public")),
    Space(2, DidKey \o <<"2">>, Some(<<"a","p","p","l","e">>), Some("private")),
    Space(3, LongDidA, Undefined, Some("public")),
    Space(4, LongDidB, Undefined, Undefined),
    Space(5, DidKey \o <<"1">>, Some(<<"A","p","p","l","e">>), Some("public")),
    Space(6, DidKey \o <<"3">>, Some(<<>>), Some("private")) }

PickerPool == {s \in SpacePool : s.ref \in {1, 2, 5}}

Lists(S, n) == UNION {[1..k -> S] : k \in 0..n}

Queries == { <<>>, <<"A","P">>, <<"k","e","y",":","z">>, <<"q">> }
PickerQueries == { <<>>, <<"A","P">> }

AccessTypes == {"all", "public", "private"}
SortKeys == {"name", "created", "usage"}
SortOrders == {"asc", "desc"}
Filters == [accessType : AccessTypes, sortBy : SortKeys, sortOrder : SortOrders]
defaultFilters == [accessType |-> "all", sortBy |-> "name", sortOrder |-> "asc"]

\* Partial<filters>: every field optional. The updates drawn are the ones the
\* three selects of SpacePickerSearch send (one field each) and the empty one.
PartialFilters ==
  { p \in [accessType : {Undefined} \cup {Some(a) : a \in AccessTypes},
           sortBy : {Undefined} \cup {Some(k) : k \in SortKeys},
           sortOrder : {Undefined} \cup {Some(o) : o \in SortOrders}] :
      Cardinality({f \in {"accessType", "sortBy", "sortOrder"} : IsDefined(p[f])}) <= 1 }

\* { ...prev, ...newFilters }
mergeFilters(prev, new) ==
  [accessType |-> IF IsDefined(new.accessType) THEN Get(new.accessType) ELSE prev.accessType,
   sortBy |-> IF IsDefined(new.sortBy) THEN Get(new.sortBy) ELSE prev.sortBy,
   sortOrder |-> IF IsDefined(new.sortOrder) THEN Get(new.sortOrder) ELSE prev.sortOrder]

\* Array.prototype.filter
RECURSIVE SelectSeqBy(_, _)
SelectSeqBy(list, keep) ==
  IF list = <<>> THEN <<>>
  ELSE (IF Head(list) \in keep THEN <<Head(list)>> ELSE <<>>)
       \o SelectSeqBy(Tail(list), keep)

\* The lists made of some of the entries of `list`, in its order.
SubLists(list) ==
  { LET idx == SelectSeqBy([i \in DOMAIN list |-> i], keep)
    IN [j \in DOMAIN idx |-> list[idx[j]]] : keep \in SUBSET DOMAIN list }

\* shortenDID(did, length = 8)
ShortenLength == 8
shortenDID(did) ==
  IF Len(did) <= ShortenLength * 2 + 3 THEN did
  ELSE SubSeq(did, 1, ShortenLength) \o <<".", ".", ".">>
       \o SubSeq(did, Len(did) - ShortenLength + 1, Len(did))

\* Mutant of matchesQuery: the name is not lower-cased before the test.
matchesQueryExactCase(space, query) ==
  \/ IsDefined(space.name) /\ includes(Get(space.name), query)
  \/ includes(toLowerCase(space.did), query)

\* space.name?.toLowerCase().includes(query) || space.did().toLowerCase().includes(query)
matchesQuery(space, query) ==
  \/ IsDefined(space.name) /\ includes(toLowerCase(Get(space.name)), query)
  \/ includes(toLowerCase(space.did), query)

\* Mutant of matchesAccess: a space without `access` passes every type filter.
matchesAccessLoose(space, accessType) ==
  ~IsDefined(space.access) \/ Get(space.access) = accessType

\* space.access?.type === accessType
matchesAccess(space, accessType) ==
  IsDefined(space.access) /\ Get(space.access) = accessType

\* a.name || fallback : an absent or empty name is falsy
nameOr(space, fallback) ==
  IF IsDefined(space.name) /\ Get(space.name) # <<>> THEN Get(space.name) ELSE fallback

\* Mutant of hookCompare: the names are compared whatever sortBy is.
hookCompareAlwaysName(a, b, sortBy, sortOrder) ==
  LET comparison ==
        localeCompare(toLowerCase(nameOr(a, a.did)), toLowerCase(nameOr(b, b.did)))
  IN IF sortOrder = "desc" THEN 0 - comparison ELSE comparison

\* The comparator of useSpaceSearch (the sort key falls back to did()).
hookCompare(a, b, sortBy, sortOrder) ==
  LET comparison ==
        IF sortBy = "name"
        THEN localeCompare(toLowerCase(nameOr(a, a.did)), toLowerCase(nameOr(b, b.did)))
        ELSE 0
  IN IF sortOrder = "desc" THEN 0 - comparison ELSE comparison

\* The comparator of filterSpaces (the sort key falls back to shortenDID(did())).
helperCompare(a, b, sortBy, sortOrder) ==
  LET comparison ==
        IF sortBy = "name"
        THEN localeCompare(toLowerCase(nameOr(a, shortenDID(a.did))),
                           toLowerCase(nameOr(b, shortenDID(b.did))))
        ELSE 0
  IN IF sortOrder = "desc" THEN 0 - comparison ELSE comparison

compareWith(impl, a, b, sortBy, sortOrder) ==
  IF impl = "hook" THEN hookCompare(a, b, sortBy, sortOrder)
  ELSE helperCompare(a, b, sortBy, sortOrder)

\* Mutant of insertSorted: an element whose key ties with one already placed
\* is dropped.
RECURSIVE insertSortedDropTies(_, _, _, _, _)
insertSortedDropTies(sorted, x, impl, sortBy, sortOrder) ==
  IF sorted = <<>> THEN <<x>>
  ELSE IF compareWith(impl, Head(sorted), x, sortBy, sortOrder) = 0 THEN sorted
  ELSE IF compareWith(impl, Head(sorted), x, sortBy, sortOrder) < 0
       THEN <<Head(sorted)>> \o insertSortedDropTies(Tail(sorted), x, impl, sortBy, sortOrder)
       ELSE <<x>> \o sorted

\* Mutant of insertSorted: x goes before the elements it ties with.
RECURSIVE insertSortedBeforeTies(_, _, _, _, _)
insertSortedBeforeTies(sorted, x, impl, sortBy, sortOrder) ==
  IF sorted = <<>> THEN <<x>>
  ELSE IF compareWith(impl, Head(sorted), x, sortBy, sortOrder) < 0
       THEN <<Head(sorted)>> \o insertSortedBeforeTies(Tail(sorted), x, impl, sortBy, sortOrder)
       ELSE <<x>> \o sorted

\* Array.prototype.sort with a comparator: a stable sort. x goes after every
\* element that does not compare greater than it.
RECURSIVE insertSorted(_, _, _, _, _)
insertSorted(sorted, x, impl, sortBy, sortOrder) ==
  IF sorted = <<>> THEN <<x>>
  ELSE IF compareWith(impl, Head(sorted), x, sortBy, sortOrder) <= 0
       THEN <<Head(sorted)>> \o insertSorted(Tail(sorted), x, impl, sortBy, sortOrder)
       ELSE <<x>> \o sorted

RECURSIVE sortSpaces(_, _, _, _)
sortSpaces(list, impl, sortBy, sortOrder) ==
  IF list = <<>> THEN <<>>
  ELSE insertSorted(sortSpaces(SubSeq(list, 1, Len(list) - 1), impl, sortBy, sortOrder),
                    list[Len(list)], impl, sortBy, sortOrder)

\* useSpaceSearch: the filteredSpaces memo.
filteredSpaces(spaceList, query, flt) ==
  LET byQuery == IF query # <<>>
                 THEN SelectSeqBy(spaceList,
                        {s \in Range(spaceList) : matchesQuery(s, toLowerCase(query))})
                 ELSE spaceList
      byAccess == IF flt.accessType # "all"
                  THEN SelectSeqBy(byQuery,
                         {s \in Range(byQuery) : matchesAccess(s, flt.accessType)})
                  ELSE byQuery
  IN sortSpaces(byAccess, "hook", flt.sortBy, flt.sortOrder)

\* spaceHelpers.filterSpaces(spaces, filters): every field of filters is optional.
filterSpaces(spaceList, opts) ==
  LET byQuery == IF IsDefined(opts.query) /\ Get(opts.query) # <<>>
                 THEN SelectSeqBy(spaceList,
                        {s \in Range(spaceList) : matchesQuery(s, toLowerCase(Get(opts.query)))})
                 ELSE spaceList
      byAccess == IF IsDefined(opts.accessType) /\ Get(opts.accessType) # "all"
                  THEN SelectSeqBy(byQuery,
                         {s \in Range(byQuery) : matchesAccess(s, Get(opts.accessType))})
                  ELSE byQuery
      order == IF IsDefined(opts.sortOrder) THEN Get(opts.sortOrder) ELSE "undefined"
  IN IF IsDefined(opts.sortBy)
     THEN sortSpaces(byAccess, "helper", Get(opts.sortBy), order)
     ELSE byAccess

\* ------------------------------------------------------------------- state
VARIABLES
  spaces,            \* the `spaces` prop of SpacePickerProvider / useSpaceSearch
  allowMultiSelect,  \* the allowMultiSelect prop (default false)
  searchQuery,       \* useSpaceSearch: searchQuery state
  filters,           \* useSpaceSearch: filters state
  selectedSpaces,    \* useSpaceSelection: selectedSpaces state (a list)
  state,             \* the reducer state of SpacePickerProvider
  notified,          \* the onSpaceSelect prop call made by the last operation, if any
  toggleHist,        \* history: the last toggle, after the toggle of the same
                     \* did() that came right before it (if one did)
  now,               \* the clock, in ticks
  timers,            \* the pending setTimeout timers
  nextTimerId,       \* the handle the next setTimeout returns
  timeout,           \* debounce: the closure's `timeout` variable
  inThrottle,        \* throttle: the closure's `inThrottle` variable
  invoked,           \* log of the invocations of the wrapped function
  callLog,           \* history: the calls of the wrapper
  localQuery,        \* SpacePickerSearch: the input's value
  validationError,   \* SpacePickerSearch: the validation message shown, if any
  searchReported,    \* the onSearchChange prop call made by the last step, if any
  clearedSince,      \* history: clear was activated and the input not changed since
  client,            \* useW3: whether a client is available
  isLoading,         \* useSpaceOperations: isLoading state
  error,             \* useSpaceOperations: error state
  inflight,          \* the operation calls awaiting the client
  nextCallId,        \* history: number of the next operation call
  settled,           \* how the call that settled in the last step ended, if one did
  retryPc,           \* executeWithRetry: where the call is
  attempt,           \* executeWithRetry: the loop variable
  retryCount,        \* useRetry: retryCount state
  sleep,             \* executeWithRetry: seconds left of the backoff wait
  lastError,         \* executeWithRetry: the lastError variable
  attemptsMade,      \* history: calls of asyncFn in this executeWithRetry call
  waits,             \* history: the seconds waited after each failed attempt
  retried,           \* history: the arguments of the onRetry calls
  retryRuns,         \* history: executeWithRetry calls started
  thrownLog,         \* history: what asyncFn threw in this executeWithRetry call
  retryResult,       \* what the executeWithRetry call rejected with, if it did
  validatorInput,    \* the validator about to be called and its argument
  validatorResult,   \* what the validator returned, and when it was called
  validatorRepeat,   \* what a second call with the same input returned, and when
  validationErrors,  \* useFormValidation: validationErrors state
  lastRun,           \* useThrottle: lastRun.current
  accounts,          \* useW3: the accounts given to useSpaceValidation
  canAccessPrivateSpaces,  \* useSpaceValidation: canAccessPrivateSpaces state
  isCheckingAccess,  \* useSpaceValidation: isCheckingAccess state
  planLookups,       \* the account.plan.get() calls awaiting their answer
  accountChanges     \* history: how many times accounts has changed

pickerVars == <<spaces, allowMultiSelect, searchQuery, filters, selectedSpaces,
                state, notified, toggleHist>>
timerVars == <<now, timers, nextTimerId, timeout, inThrottle, invoked, callLog>>
boxVars == <<localQuery, validationError, searchReported, clearedSince>>
opsVars == <<client, isLoading, error, inflight, nextCallId, settled>>
retryVars == <<retryPc, attempt, retryCount, sleep, lastError, attemptsMade, waits,
               retried, retryRuns, thrownLog, retryResult>>
validVars == <<validatorInput, validatorResult, validatorRepeat>>
hookVars == <<validationErrors, lastRun, accounts, canAccessPrivateSpaces,
              isCheckingAccess, planLookups, accountChanges>>
vars == <<pickerVars, timerVars, boxVars, opsVars, retryVars, validVars, hookVars>>

\* What a step of one component leaves alone.
exceptPicker == <<timerVars, boxVars, opsVars, retryVars, validVars, hookVars>>
exceptTimers == <<pickerVars, boxVars, opsVars, retryVars, validVars, hookVars>>
exceptBox == <<opsVars, retryVars, validVars, hookVars>>
exceptOps == <<pickerVars, timerVars, boxVars, retryVars, validVars, hookVars>>
exceptRetry == <<pickerVars, timerVars, boxVars, opsVars, validVars, hookVars>>
exceptValidators == <<pickerVars, timerVars, boxVars, opsVars, retryVars, hookVars>>
exceptHooks == <<pickerVars, timerVars, boxVars, opsVars, retryVars, validVars>>

\* ---------------------------------------------------------- picker context
Dids(list) == {list[i].did : i \in DOMAIN list}

\* spacePickerReducer, the cases dispatched by the provider's effects, and
\* TOGGLE_SPACE_SELECTION.
spacePickerReducer(st, action) ==
  CASE action.type = "SET_SEARCH_QUERY" -> [st EXCEPT !.searchQuery = action.payload]
    [] action.type = "SET_FILTERS" ->
         [st EXCEPT !.filters = mergeFilters(st.filters,
            [accessType |-> Some(action.payload.accessType),
             sortBy |-> Some(action.payload.sortBy),
             sortOrder |-> Some(action.payload.sortOrder)])]
    [] action.type = "SET_SELECTED_SPACES" -> [st EXCEPT !.selectedSpaces = action.payload]
    [] action.type = "TOGGLE_SPACE_SELECTION" ->
         LET space == action.payload
             isSelected == \E i \in DOMAIN st.selectedSpaces :
                              st.selectedSpaces[i].did = space.did
         IN [st EXCEPT !.selectedSpaces =
               IF isSelected
               THEN SelectSeqBy(st.selectedSpaces,
                      {s \in Range(st.selectedSpaces) : s.did # space.did})
               ELSE Append(st.selectedSpaces, space)]
    [] action.type = "CLEAR_SELECTION" -> [st EXCEPT !.selectedSpaces = <<>>]
    [] action.type = "SELECT_ALL_SPACES" -> [st EXCEPT !.selectedSpaces = action.payload]
    [] OTHER -> st

initialState ==
  [searchQuery |-> <<>>, filters |-> defaultFilters, selectedSpaces |-> <<>>]

\* The three effects of SpacePickerProvider that copy the hooks' state into
\* the reducer state after a render.
syncEffects(st, q, f, sel) ==
  spacePickerReducer(
    spacePickerReducer(
      spacePickerReducer(st, [type |-> "SET_SEARCH_QUERY", payload |-> q]),
      [type |-> "SET_FILTERS", payload |-> f]),
    [type |-> "SET_SELECTED_SPACES", payload |-> sel])

\* Mutant of selectSpace: selecting a new space replaces the selection.
selectSpaceReplacing(prev, space) ==
  IF \E i \in DOMAIN prev : prev[i].did = space.did
  THEN SelectSeqBy(prev, {s \in Range(prev) : s.did # space.did})
  ELSE <<space>>

\* Mutant of selectSpace: the spaces are compared as objects.
selectSpaceByRef(prev, space) ==
  IF \E i \in DOMAIN prev : prev[i] = space
  THEN SelectSeqBy(prev, {s \in Range(prev) : s # space})
  ELSE Append(prev, space)

\* useSpaceSelection.selectSpace: the state updater.
selectSpace(prev, space) ==
  IF \E i \in DOMAIN prev : prev[i].did = space.did
  THEN SelectSeqBy(prev, {s \in Range(prev) : s.did # space.did})
  ELSE Append(prev, space)

\* useSpaceSelection.isSpaceSelected
isSpaceSelected(space) == \E i \in DOMAIN selectedSpaces : selectedSpaces[i].did = space.did

\* The list useSpaceSelection is given: the filteredSpaces of useSpaceSearch.
currentFiltered == filteredSpaces(spaces, searchQuery, filters)

selectedCount == Len(selectedSpaces)

\* Mutant of allSelected: an empty list counts as all selected.
allSelectedOfEmpty == selectedCount = Len(currentFiltered)

allSelected == selectedCount = Len(currentFiltered) /\ Len(currentFiltered) > 0
someSelected == selectedCount > 0 /\ selectedCount < Len(currentFiltered)

\* context.toggleSpaceSelection(space)
toggleSpaceSelection(space) ==
  /\ selectedSpaces' = selectSpace(selectedSpaces, space)
  /\ state' = syncEffects(state, searchQuery, filters, selectedSpaces')
  /\ toggleHist' = (IF toggleHist # <<>> /\ toggleHist[Len(toggleHist)].did = space.did
                    THEN <<toggleHist[Len(toggleHist)]>> ELSE <<>>)
                   \o <<[did |-> space.did, ref |-> space.ref, before |-> selectedSpaces]>>
  /\ UNCHANGED <<spaces, allowMultiSelect, searchQuery, filters>>

ToggleSpaceSelection ==
  /\ \E space \in Range(currentFiltered) : toggleSpaceSelection(space)
  /\ notified' = Undefined
  /\ UNCHANGED exceptPicker

\* context.onSpaceSelect = handleSpaceSelect(space)
HandleSpaceSelect ==
  /\ UNCHANGED exceptPicker
  /\ \E space \in Range(currentFiltered) :
    IF allowMultiSelect
    THEN toggleSpaceSelection(space) /\ notified' = Undefined
    ELSE /\ notified' = Some(space)
         /\ toggleHist' = <<>>
         /\ UNCHANGED <<spaces, allowMultiSelect, searchQuery, filters,
                        selectedSpaces, state>>

\* useSpaceSelection.clearSelection
clearSelection ==
  /\ selectedSpaces' = <<>>
  /\ state' = syncEffects(state, searchQuery, filters, selectedSpaces')
  /\ toggleHist' = <<>>
  /\ notified' = Undefined
  /\ UNCHANGED <<spaces, allowMultiSelect, searchQuery, filters>>

\* Mutant of selectAllSpaces: the list is added to the selection.
selectAllSpacesAdding ==
  /\ selectedSpaces' = selectedSpaces \o currentFiltered
  /\ state' = syncEffects(state, searchQuery, filters, selectedSpaces')
  /\ toggleHist' = <<>>
  /\ notified' = Undefined
  /\ UNCHANGED <<spaces, allowMultiSelect, searchQuery, filters>>

\* useSpaceSelection.selectAllSpaces
selectAllSpaces ==
  /\ selectedSpaces' = currentFiltered
  /\ state' = syncEffects(state, searchQuery, filters, selectedSpaces')
  /\ toggleHist' = <<>>
  /\ notified' = Undefined
  /\ UNCHANGED <<spaces, allowMultiSelect, searchQuery, filters>>

\* context.clearSpaceSelection
ClearSpaceSelection == clearSelection /\ UNCHANGED exceptPicker

\* context.selectAllSpaces
SelectAllSpaces == selectAllSpaces /\ UNCHANGED exceptPicker

\* context.setSelectedSpaces(list)
setSelectedSpaces(list) ==
  IF Len(list) = 0 THEN clearSelection
  ELSE IF Len(list) = Len(currentFiltered) THEN selectAllSpaces
  ELSE /\ toggleHist' = <<>>
       /\ notified' = Undefined
       /\ UNCHANGED <<spaces, allowMultiSelect, searchQuery, filters,
                      selectedSpaces, state>>

SetSelectedSpaces ==
  /\ UNCHANGED exceptPicker
  /\ \E list \in SubLists(currentFiltered) : setSelectedSpaces(list)

\* context.setSearchQuery -> useSpaceSearch.updateSearchQuery
updateSearchQuery(query) ==
  /\ searchQuery' = query
  /\ state' = syncEffects(state, searchQuery', filters, selectedSpaces)
  /\ toggleHist' = <<>>
  /\ notified' = Undefined
  /\ UNCHANGED <<spaces, allowMultiSelect, filters, selectedSpaces>>

\* context.setFilters -> useSpaceSearch.updateFilters
updateFilters(newFilters) ==
  /\ filters' = mergeFilters(filters, newFilters)
  /\ state' = syncEffects(state, searchQuery, filters', selectedSpaces)
  /\ toggleHist' = <<>>
  /\ notified' = Undefined
  /\ UNCHANGED <<spaces, allowMultiSelect, searchQuery, selectedSpaces>>

\* useSpaceSearch.clearSearch
clearSearch ==
  /\ searchQuery' = <<>>
  /\ filters' = defaultFilters
  /\ state' = syncEffects(state, searchQuery', filters', selectedSpaces)
  /\ toggleHist' = <<>>
  /\ notified' = Undefined
  /\ UNCHANGED <<spaces, allowMultiSelect, selectedSpaces>>

\* The hook's operations, called directly.
UpdateSearchQuery == UNCHANGED exceptPicker /\ \E q \in Queries : updateSearchQuery(q)
UpdateFilters == UNCHANGED exceptPicker /\ \E p \in PartialFilters : updateFilters(p)
ClearSearch == UNCHANGED exceptPicker /\ clearSearch

\* context.setSearchQuery and context.setFilters
SetSearchQuery == UNCHANGED exceptPicker /\ \E q \in PickerQueries : updateSearchQuery(q)
SetFilters == UNCHANGED exceptPicker /\ \E p \in PartialFilters : updateFilters(p)

\* ------------------------------------------------------ debounce, throttle
\* Time: a timer due at t runs at t, before the clock moves on and before any
\* call made at t.
timerDue == \E tm \in timers : tm.due <= now

CallArgs == {"test1", "test2"}

\* setTimeout(callback, delay): the new set of pending timers.
setTimeout(pending, owner, args, delay) ==
  pending \cup {[id |-> nextTimerId, due |-> now + delay, owner |-> owner, args |-> args]}

\* clearTimeout(handle)
clearTimeout(pending, handle) == {tm \in pending : tm.id # handle}

\* Mutant of debounceSchedule: the pending timer is not cleared.
debounceScheduleNoClear(pending, handle, args, wait) ==
  setTimeout(pending, "debounce", args, wait)

\* debounce: the body of the returned wrapper.
\*   if (timeout) clearTimeout(timeout); timeout = setTimeout(() => func(...args), wait)
debounceSchedule(pending, handle, args, wait) ==
  setTimeout(IF IsDefined(handle) THEN clearTimeout(pending, Get(handle)) ELSE pending,
             "debounce", args, wait)

\* A call of the wrapper debounce(func, DebounceWait) returned.
DebouncedCall ==
  /\ ~timerDue
  /\ Len(callLog) < MaxCalls
  /\ \E args \in CallArgs :
       /\ timers' = debounceSchedule(timers, timeout, args, DebounceWait)
       /\ callLog' = Append(callLog, [at |-> now, args |-> args])
  /\ timeout' = Some(nextTimerId)
  /\ nextTimerId' = nextTimerId + 1
  /\ UNCHANGED <<now, inThrottle, invoked, exceptTimers>>

\* The debounce timer runs: () => func(...args).
DebounceTimerFires ==
  /\ \E tm \in timers :
       /\ tm.due <= now
       /\ tm.owner = "debounce"
       /\ timers' = timers \ {tm}
       /\ invoked' = Append(invoked, [at |-> now, args |-> tm.args])
  /\ UNCHANGED <<now, nextTimerId, timeout, inThrottle, callLog, exceptTimers>>

\* Mutant of throttleOpen: the flag is tested the wrong way round.
throttleOpenInverted(flag) == flag = Some(TRUE)

\* throttle: `if (!inThrottle)`; the flag is declared without a value.
throttleOpen(flag) == flag = Undefined \/ flag = Some(FALSE)

\* A call of the wrapper throttle(func, ThrottleLimit) returned.
ThrottledCall ==
  /\ ~timerDue
  /\ Len(callLog) < MaxCalls
  /\ \E args \in CallArgs :
       /\ callLog' = Append(callLog, [at |-> now, args |-> args])
       /\ IF throttleOpen(inThrottle)
          THEN /\ invoked' = Append(invoked, [at |-> now, args |-> args])
               /\ inThrottle' = Some(TRUE)
               /\ timers' = setTimeout(timers, "throttle", Undefined, ThrottleLimit)
               /\ nextTimerId' = nextTimerId + 1
          ELSE UNCHANGED <<invoked, inThrottle, timers, nextTimerId>>
  /\ UNCHANGED <<now, timeout, exceptTimers>>

\* The throttle timer runs: () => inThrottle = false.
ThrottleTimerFires ==
  /\ \E tm \in timers :
       /\ tm.due <= now
       /\ tm.owner = "throttle"
       /\ timers' = timers \ {tm}
  /\ inThrottle' = Some(FALSE)
  /\ UNCHANGED <<now, nextTimerId, timeout, invoked, callLog, exceptTimers>>

\* A tick of the clock passes.
Tick ==
  /\ ~timerDue
  /\ now < MaxTime
  /\ now' = now + 1
  /\ UNCHANGED <<timers, nextTimerId, timeout, inThrottle, invoked, callLog, exceptTimers>>

\* ----------------------------------------------------------- validation
\* A ValidationErrors object: its entries in insertion order, each a field
\* with an optional message.
noErrors == <<>>

\* errors[field] = message
setError(errors, field, message) ==
  IF \E i \in DOMAIN errors : errors[i].field = field
  THEN [i \in DOMAIN errors |->
          IF errors[i].field = field THEN [field |-> field, message |-> Some(message)]
          ELSE errors[i]]
  ELSE Append(errors, [field |-> field, message |-> Some(message)])

\* Object.values(errors).filter(error => error !== undefined && error !== '')
errorMessages(errors) ==
  SelectSeqBy(errors, {e \in Range(errors) : e.message # Undefined /\ e.message # Some("")})

\* hasValidationErrors
hasValidationErrors(errors) ==
  \E i \in DOMAIN errors : errors[i].message # Undefined /\ errors[i].message # Some("")

\* A getFirstValidationError that finds no message.
getFirstValidationErrorNone(errors) == Undefined

\* getFirstValidationError
getFirstValidationError(errors) ==
  IF Len(errorMessages(errors)) > 0 THEN errorMessages(errors)[1].message ELSE Undefined

\* \s, as far as the model's characters go
isWhitespace(c) == c \in {" ", "\t", "\n"}
isWordChar(c) ==
  c \in Range(Uppers) \cup Range(Lowers) \cup Range(Digits) \cup {"_"}

\* String.prototype.trim
RECURSIVE trimStart(_)
trimStart(s) == IF s # <<>> /\ isWhitespace(Head(s)) THEN trimStart(Tail(s)) ELSE s
RECURSIVE trimEnd(_)
trimEnd(s) ==
  IF s # <<>> /\ isWhitespace(s[Len(s)]) THEN trimEnd(SubSeq(s, 1, Len(s) - 1)) ELSE s
trim(s) == trimEnd(trimStart(s))

\* input.replace(/c/g, replacement) for a one-character pattern
RECURSIVE replaceAll(_, _, _)
replaceAll(s, c, replacement) ==
  IF s = <<>> THEN <<>>
  ELSE (IF Head(s) = c THEN replacement ELSE <<Head(s)>>)
       \o replaceAll(Tail(s), c, replacement)

\* sanitizeInput
sanitizeInput(input) ==
  replaceAll(
    replaceAll(
      replaceAll(
        replaceAll(
          replaceAll(input, "<", <<"&","l","t",";">>),
          ">", <<"&","g","t",";">>),
        "\"", <<"&","q","u","o","t",";">>),
      "'", <<"&","#","x","2","7",";">>),
    "/", <<"&","#","x","2","F",";">>)

\* /on\w+\s*=/i .test(s)
matchesOnHandler(s) ==
  LET l == toLowerCase(s)
  IN \E i \in DOMAIN l : \E j \in (i + 2)..Len(l) : \E k \in (j + 1)..Len(l) :
       /\ l[i] = "o" /\ l[i + 1] = "n"
       /\ \A w \in (i + 2)..j : isWordChar(l[w])
       /\ \A w \in (j + 1)..(k - 1) : isWhitespace(l[w])
       /\ l[k] = "="

\* dangerousPatterns.some(pattern => pattern.test(query))
isDangerous(query) ==
  \/ includes(toLowerCase(query), <<"<","s","c","r","i","p","t">>)
  \/ includes(toLowerCase(query), <<"j","a","v","a","s","c","r","i","p","t",":">>)
  \/ matchesOnHandler(query)

MaxQueryLength == 100
QueryTooLong == "Search query must be no more than 100 characters long"
QueryInvalid == "Search query contains invalid characters"

\* validateSearchQuery
validateSearchQuery(query) ==
  LET afterLength == IF query # <<>> /\ Len(query) > MaxQueryLength
                     THEN setError(noErrors, "query", QueryTooLong) ELSE noErrors
  IN IF isDangerous(query) THEN setError(afterLength, "query", QueryInvalid)
     ELSE afterLength

\* validateAndSanitizeSearchQuery
validateAndSanitizeSearchQuery(query) ==
  LET sanitized == sanitizeInput(trim(query))
  IN [value |-> sanitized, errors |-> validateSearchQuery(sanitized)]

\* ------------------------------------------------------- SpacePickerSearch
\* What the user types into the box.
BoxInputs ==
  { <<>>, <<"a","p">>, <<" ","Z","e"," ">>, <<"<","s","c","r","i","p","t">>,
    <<"j","a","v","a","s","c","r","i","p","t",":">> }

\* The re-render after the context's query changed: the effects of the
\* provider copy it into the reducer state, and the effect of the box copies
\* the context's searchQuery into localQuery when it has changed.
queryEffects(typed) ==
  /\ state' = syncEffects(state, searchQuery', filters', selectedSpaces)
  /\ localQuery' = IF state'.searchQuery # state.searchQuery THEN state'.searchQuery
                   ELSE typed

\* handleInputChange: setLocalQuery(value); debouncedSearch(value)
HandleInputChange ==
  /\ ~timerDue
  /\ nextTimerId <= MaxCalls
  /\ \E value \in BoxInputs :
       /\ localQuery' = value
       /\ timers' = debounceSchedule(timers, timeout, value, DebounceWait)
  /\ timeout' = Some(nextTimerId)
  /\ nextTimerId' = nextTimerId + 1
  /\ searchReported' = Undefined
  /\ clearedSince' = FALSE
  /\ UNCHANGED <<now, inThrottle, invoked, callLog, validationError, pickerVars, exceptBox>>

\* The debounce timer of the box runs: the function given to debounce.
DebouncedSearch ==
  /\ \E tm \in timers :
       /\ tm.due <= now
       /\ tm.owner = "debounce"
       /\ timers' = timers \ {tm}
       /\ LET checked == validateAndSanitizeSearchQuery(tm.args)
          IN IF hasValidationErrors(checked.errors)
             THEN /\ validationError' = getFirstValidationError(checked.errors)
                  /\ searchReported' = Undefined
                  /\ UNCHANGED <<searchQuery, filters, state, localQuery>>
             ELSE /\ validationError' = Undefined
                  /\ searchQuery' = checked.value
                  /\ filters' = filters
                  /\ queryEffects(localQuery)
                  /\ searchReported' = Some(checked.value)
  /\ notified' = Undefined
  /\ toggleHist' = <<>>
  /\ UNCHANGED <<now, nextTimerId, timeout, inThrottle, invoked, callLog, clearedSince,
                 spaces, allowMultiSelect, selectedSpaces, exceptBox>>

\* handleClear (the clear button, shown while the input holds text) and
\* handleKeyDown with Escape:
\*   setLocalQuery(''); setSearchQuery(''); clearSearch(); onSearchChange?.('')
HandleClear ==
  /\ ~timerDue
  /\ searchQuery' = <<>>
  /\ filters' = defaultFilters
  /\ queryEffects(<<>>)
  /\ searchReported' = Some(<<>>)
  /\ clearedSince' = TRUE
  /\ notified' = Undefined
  /\ toggleHist' = <<>>
  /\ UNCHANGED <<timerVars, validationError, spaces, allowMultiSelect, selectedSpaces,
                 exceptBox>>

\* ------------------------------------------------------ useSpaceOperations
\* What the client (or asyncFn) may throw: an Error, or a value that is none.
Thrown ==
  { [isError |-> TRUE, message |-> "quota exceeded"],
    [isError |-> TRUE, message |-> "network down"],
    [isError |-> FALSE, message |-> "a string"] }

Error(message) == [isError |-> TRUE, message |-> message]

defaultMessage(kind) ==
  CASE kind = "createSpace" -> "Failed to create space"
    [] kind = "setCurrentSpace" -> "Failed to set current space"
    [] kind = "deleteSpace" -> "Failed to delete space"
    [] OTHER -> "An unexpected error occurred"

\* Mutant of caughtError: the caught value is recorded as it is.
caughtErrorRaw(err, kind) == err

\* err instanceof Error ? err : new Error(<default message>)
caughtError(err, kind) == IF err.isError THEN err ELSE Error(defaultMessage(kind))

\* An overlapping call failed: the calls in flight have seen a failure recorded.
sawFailure(calls) == {[c EXCEPT !.failedSince = TRUE] : c \in calls}

\* createSpace(name, options) / setCurrentSpace(space), up to the await.
StartOperation ==
  /\ nextCallId <= MaxOps
  /\ \E kind \in {"createSpace", "setCurrentSpace"} :
       IF ~client
       THEN /\ settled' = Some([id |-> nextCallId, kind |-> kind, result |-> "rejected",
                                thrown |-> Error("Client not available"),
                                error |-> Error("Client not available"),
                                viaClient |-> FALSE, failedSince |-> FALSE])
            /\ UNCHANGED <<isLoading, error, inflight>>
       ELSE /\ isLoading' = TRUE
            /\ error' = Undefined
            /\ inflight' = inflight \cup
                             {[id |-> nextCallId, kind |-> kind, failedSince |-> FALSE]}
            /\ settled' = Undefined
  /\ nextCallId' = nextCallId + 1
  /\ UNCHANGED <<client, exceptOps>>

\* The awaited client call resolves: return, then finally.
ClientResolves ==
  /\ \E c \in inflight :
       /\ inflight' = inflight \ {c}
       /\ settled' = Some([id |-> c.id, kind |-> c.kind, result |-> "resolved",
                           thrown |-> Undefined, error |-> Undefined,
                           viaClient |-> TRUE, failedSince |-> c.failedSince])
  /\ isLoading' = FALSE
  /\ UNCHANGED <<client, error, nextCallId, exceptOps>>

\* The awaited client call rejects: catch, then finally.
ClientRejects ==
  /\ \E c \in inflight, err \in Thrown :
       /\ error' = Some(caughtError(err, c.kind))
       /\ inflight' = sawFailure(inflight \ {c})
       /\ settled' = Some([id |-> c.id, kind |-> c.kind, result |-> "rejected",
                           thrown |-> err, error |-> caughtError(err, c.kind),
                           viaClient |-> TRUE, failedSince |-> c.failedSince])
  /\ isLoading' = FALSE
  /\ UNCHANGED <<client, nextCallId, exceptOps>>

\* deleteSpace(space): it throws before any await, so the call runs through
\* try, catch and finally in one turn.
DeleteSpace ==
  /\ nextCallId <= MaxOps
  /\ IF ~client
     THEN /\ settled' = Some([id |-> nextCallId, kind |-> "deleteSpace",
                              result |-> "rejected",
                              thrown |-> Error("Client not available"),
                              error |-> Error("Client not available"),
                              viaClient |-> FALSE, failedSince |-> FALSE])
          /\ UNCHANGED <<isLoading, error, inflight>>
     ELSE /\ isLoading' = FALSE
          /\ error' = Some(caughtError(Error("Space deletion not yet implemented"),
                                       "deleteSpace"))
          /\ inflight' = sawFailure(inflight)
          /\ settled' = Some([id |-> nextCallId, kind |-> "deleteSpace",
                              result |-> "rejected",
                              thrown |-> Error("Space deletion not yet implemented"),
                              error |-> Error("Space deletion not yet implemented"),
                              viaClient |-> FALSE, failedSince |-> FALSE])
  /\ nextCallId' = nextCallId + 1
  /\ UNCHANGED <<client, exceptOps>>

\* ---------------------------------------------------------------- useRetry
maxRetries == 3

RECURSIVE pow2(_)
pow2(n) == IF n = 0 THEN 1 ELSE 2 * pow2(n - 1)

\* Mutant of loopContinues: the loop stops one attempt early.
loopContinuesStrict(a) == a < maxRetries

\* for (let attempt = 0; attempt <= maxRetries; attempt++)
loopContinues(a) == a <= maxRetries

\* Math.pow(2, attempt) * 1000 ms, in seconds
backoffSeconds(a) == pow2(a)

\* executeWithRetry(asyncFn, onRetry): up to the first await.
ExecuteWithRetry ==
  /\ retryPc \in {"idle", "resolved", "rejected"}
  /\ retryRuns < MaxRetryRuns
  /\ retryRuns' = retryRuns + 1
  /\ attempt' = 0
  /\ lastError' = Undefined
  /\ waits' = <<>>
  /\ retried' = <<>>
  /\ thrownLog' = <<>>
  /\ retryResult' = Undefined
  /\ IF loopContinues(0)
     THEN /\ retryCount' = 0
          /\ attemptsMade' = 1
          /\ retryPc' = "attempting"
     ELSE /\ attemptsMade' = 0
          /\ retryPc' = "rejected"
          /\ UNCHANGED retryCount
  /\ UNCHANGED <<sleep, exceptRetry>>

\* asyncFn() resolves: return await asyncFn()
AttemptResolves ==
  /\ retryPc = "attempting"
  /\ retryPc' = "resolved"
  /\ UNCHANGED <<attempt, retryCount, sleep, lastError, attemptsMade, waits, retried,
                 retryRuns, thrownLog, retryResult, exceptRetry>>

\* asyncFn() rejects: the catch block, then the backoff wait or, after the
\* last attempt, the loop's exit and `throw lastError`.
AttemptRejects ==
  /\ retryPc = "attempting"
  /\ \E err \in Thrown :
       /\ lastError' = Some(caughtError(err, "asyncFn"))
       /\ thrownLog' = Append(thrownLog, err)
  /\ IF attempt < maxRetries
     THEN /\ retried' = Append(retried, attempt + 1)
          /\ sleep' = backoffSeconds(attempt)
          /\ waits' = Append(waits, 0)
          /\ retryPc' = "waiting"
          /\ UNCHANGED <<attempt, retryResult>>
     ELSE /\ attempt' = attempt + 1
          /\ retryPc' = "rejected"
          /\ retryResult' = lastError'
          /\ UNCHANGED <<retried, sleep, waits>>
  /\ UNCHANGED <<retryCount, attemptsMade, retryRuns, exceptRetry>>

\* A second of the backoff wait passes.
SecondPasses ==
  /\ retryPc = "waiting"
  /\ sleep > 0
  /\ sleep' = sleep - 1
  /\ waits' = [waits EXCEPT ![Len(waits)] = @ + 1]
  /\ UNCHANGED <<retryPc, attempt, retryCount, lastError, attemptsMade, retried,
                 retryRuns, thrownLog, retryResult, exceptRetry>>

\* The backoff timer has run: attempt++, the loop test, the next attempt.
NextAttempt ==
  /\ retryPc = "waiting"
  /\ sleep = 0
  /\ attempt' = attempt + 1
  /\ IF loopContinues(attempt + 1)
     THEN /\ retryCount' = attempt + 1
          /\ attemptsMade' = attemptsMade + 1
          /\ retryPc' = "attempting"
          /\ UNCHANGED retryResult
     ELSE /\ retryPc' = "rejected"
          /\ retryResult' = lastError
          /\ UNCHANGED <<retryCount, attemptsMade>>
  /\ UNCHANGED <<sleep, lastError, waits, retried, retryRuns, thrownLog, exceptRetry>>

\* ------------------------------------------------------------- validators
\* c repeated n times
Repeat(c, n) == [i \in 1..n |-> c]

\* Every string of at most n characters of `alphabet`.
Strings(alphabet, n) == UNION {[1..k -> alphabet] : k \in 0..n}

\* SPACE_NAME_RULES
SpaceNameMinLength == 1
SpaceNameMaxLength == 100
reservedNames ==
  { <<"a","d","m","i","n">>, <<"r","o","o","t">>, <<"s","y","s","t","e","m">>,
    <<"a","p","i">>, <<"w","w","w">>, <<"m","a","i","l">>, <<"f","t","p">> }

NameRequired == "Space name is required"
NameTooShort == "Space name must be at least 1 character long"
NameTooLong == "Space name must be no more than 100 characters long"
NameBadChars ==
  "Space name can only contain letters, numbers, spaces, hyphens, underscores, and dots"
NameReserved == "This space name is reserved and cannot be used"

\* SPACE_NAME_RULES.pattern = /^[a-zA-Z0-9\s\-_\.]+$/ .test(s)
matchesNamePattern(s) ==
  /\ s # <<>>
  /\ \A i \in DOMAIN s :
       \/ s[i] \in Range(Uppers) \cup Range(Lowers) \cup Range(Digits)
       \/ isWhitespace(s[i])
       \/ s[i] \in {"-", "_", "."}

\* Mutant of isReservedName: the name is compared as it was typed.
isReservedNameExactCase(trimmedName) == trimmedName \in reservedNames

\* SPACE_NAME_RULES.reservedNames.includes(trimmedName.toLowerCase())
isReservedName(trimmedName) == toLowerCase(trimmedName) \in reservedNames

\* validateSpaceName
validateSpaceName(name) ==
  IF name = <<>> \/ Len(trim(name)) = 0
  THEN setError(noErrors, "name", NameRequired)
  ELSE LET trimmedName == trim(name)
           afterMin == IF Len(trimmedName) < SpaceNameMinLength
                       THEN setError(noErrors, "name", NameTooShort) ELSE noErrors
           afterMax == IF Len(trimmedName) > SpaceNameMaxLength
                       THEN setError(afterMin, "name", NameTooLong) ELSE afterMin
           afterPattern == IF ~matchesNamePattern(trimmedName)
                           THEN setError(afterMax, "name", NameBadChars) ELSE afterMax
       IN IF isReservedName(trimmedName)
          THEN setError(afterPattern, "name", NameReserved) ELSE afterPattern

\* The names given to validateSpaceName: the short strings over a few
\* characters of each kind, the reserved words in several spellings, names
\* around the length limit, and the examples of the tests.
NameAlphabet == {"a", "Z", "7", " ", "-", "!", "\t"}
NameInputs ==
  Strings(NameAlphabet, MaxTextLen)
  \cup reservedNames
  \cup { <<"A","d","m","i","n">>, <<" ","R","O","O","T"," ">>, <<"a","d","m","i","n","s">>,
         <<"a","p","i","!">>, <<"M","y"," ","S","p","a","c","e">>,
         <<"b","a","d","$","n","a","m","e">>, <<"c","a","f","é">>,
         <<"m","y","_","s","p","a","c","e",".","v","2">> }
  \cup { Repeat("a", n) : n \in {SpaceNameMaxLength - 1, SpaceNameMaxLength,
                                 SpaceNameMaxLength + 1} }
  \cup { <<" ">> \o Repeat("a", SpaceNameMaxLength) \o <<" ">>,
         Repeat("a", SpaceNameMaxLength) \o <<"!">>,
         Repeat("!", SpaceNameMaxLength) }

\* What a validator call is given and what it gives back.
ValidatorCall(fn, arg) == [fn |-> fn, arg |-> arg]
ValidatorReturn(errors) == [errors |-> errors, at |-> now]

\* validateSpaceName(name) is called.
ValidateSpaceName ==
  /\ IsDefined(validatorInput) /\ Get(validatorInput).fn = "validateSpaceName"
  /\ validatorResult = Undefined
  /\ validatorResult' = Some(ValidatorReturn(validateSpaceName(Get(validatorInput).arg)))
  /\ UNCHANGED <<validatorInput, validatorRepeat, exceptValidators>>

\* isValidEmail: /^[^\s@]+@[^\s@]+\.[^\s@]+$/ .test(email)
isValidEmail(email) ==
  /\ \A i \in DOMAIN email : ~isWhitespace(email[i])
  /\ \E i \in DOMAIN email :
       /\ email[i] = "@"
       /\ \A k \in DOMAIN email : email[k] = "@" => k = i
       /\ i > 1
       /\ \E j \in (i + 2)..(Len(email) - 1) : email[j] = "."

\* isValidDID: /^did:[a-z0-9]+:[a-zA-Z0-9._-]+$/ .test(did)
isValidDID(did) ==
  /\ Len(did) >= 7
  /\ SubSeq(did, 1, 4) = <<"d","i","d",":">>
  /\ \E k \in 6..(Len(did) - 1) :
       /\ did[k] = ":"
       /\ \A m \in 5..(k - 1) : did[m] \in Range(Lowers) \cup Range(Digits)
       /\ \A m \in (k + 1)..Len(did) :
            did[m] \in Range(Uppers) \cup Range(Lowers) \cup Range(Digits) \cup {".", "_", "-"}

\* isValidEmailOrDID
isValidEmailOrDID(value) == isValidEmail(value) \/ isValidDID(value)

\* PERMISSION_GRANTEE_RULES
GranteeMinLength == 1
GranteeMaxLength == 255

\* CAPABILITY_RULES.validCapabilities
validCapabilities ==
  { "store/add", "store/remove", "upload/add", "upload/list", "space/info",
    "space/delete", "space/rename", "space/share", "*" }

GranteeRequired == "Grantee is required"
GranteeTooShort == "Grantee must be at least 1 character long"
GranteeTooLong == "Grantee must be no more than 255 characters long"
GranteeInvalid == "Grantee must be a valid email address or DID"
CapabilitiesRequired == "At least one capability must be selected"
ExpirationPast == "Expiration date must be in the future"
ExpirationTooFar == "Expiration date cannot be more than 1 year in the future"

\* list.join(', ')
RECURSIVE join(_)
join(list) ==
  IF list = <<>> THEN ""
  ELSE IF Len(list) = 1 THEN list[1]
  ELSE list[1] \o ", " \o join(Tail(list))

\* `Invalid capabilities: ${invalidCapabilities.join(', ')}`
CapabilitiesInvalid(invalidCapabilities) ==
  "Invalid capabilities: " \o join(invalidCapabilities)

\* One year, in ticks of the clock: what setFullYear(getFullYear() + 1) adds.
OneYear == 3

\* Mutant of notInFuture: the current instant counts as the future.
notInFutureLoose(expiration, today) == expiration < today

\* expiration <= now
notInFuture(expiration, today) == expiration <= today

\* validatePermissionForm: the grantee part
granteeErrors(errors, grantee) ==
  IF grantee = <<>> \/ Len(trim(grantee)) = 0
  THEN setError(errors, "grantee", GranteeRequired)
  ELSE LET trimmedGrantee == trim(grantee)
           afterMin == IF Len(trimmedGrantee) < GranteeMinLength
                       THEN setError(errors, "grantee", GranteeTooShort) ELSE errors
           afterMax == IF Len(trimmedGrantee) > GranteeMaxLength
                       THEN setError(afterMin, "grantee", GranteeTooLong) ELSE afterMin
       IN IF ~isValidEmailOrDID(trimmedGrantee)
          THEN setError(afterMax, "grantee", GranteeInvalid) ELSE afterMax

\* validatePermissionForm: the capabilities part
capabilityErrors(errors, capabilities) ==
  IF Len(capabilities) = 0
  THEN setError(errors, "capabilities", CapabilitiesRequired)
  ELSE LET invalidCapabilities ==
             SelectSeqBy(capabilities, Range(capabilities) \ validCapabilities)
       IN IF Len(invalidCapabilities) > 0
          THEN setError(errors, "capabilities", CapabilitiesInvalid(invalidCapabilities))
          ELSE errors

\* validatePermissionForm: the expiration part; `today` is new Date()
expirationErrors(errors, expiration, today) ==
  IF ~IsDefined(expiration) THEN errors
  ELSE LET afterPast == IF notInFuture(Get(expiration), today)
                        THEN setError(errors, "expiration", ExpirationPast) ELSE errors
           oneYearFromNow == today + OneYear
       IN IF Get(expiration) > oneYearFromNow
          THEN setError(afterPast, "expiration", ExpirationTooFar) ELSE afterPast

\* validatePermissionForm
validatePermissionForm(formData) ==
  expirationErrors(
    capabilityErrors(granteeErrors(noErrors, formData.grantee), formData.capabilities),
    formData.expiration, now)

\* The forms given to validatePermissionForm.
GranteeSamples ==
  { <<>>, <<"a","@","b",".","c">>, <<"n","o","t","-","v","a","l","i","d">> }
GranteeInputs ==
  GranteeSamples
  \cup Strings({"a", "@", "."}, MaxTextLen)
  \cup { <<" ">>, <<" ","a","@","b",".","c"," ">>, <<"a"," ","@","b",".","c">>,
         <<"a","@","b">>, <<"@","b",".","c">>, <<"a","@","@","b",".","c">>,
         <<"a","@","b",".",".","c">>, DidKey \o <<"a","b","c">>, DidKey,
         <<"d","i","d",":","K","e","y",":","a">>, <<"D","I","D",":","k","e","y",":","a">>,
         <<"d","i","d",":","k",":","a",":","b">>, <<"d","i","d",":","w","e","b",":","a",".","b","_","c","-","d">>,
         Repeat("a", GranteeMaxLength - 4) \o <<"@","b",".","c">>,
         Repeat("a", GranteeMaxLength - 3) \o <<"@","b",".","c">>,
         <<" ">> \o Repeat("a", GranteeMaxLength - 4) \o <<"@","b",".","c"," ">>,
         Repeat("a", GranteeMaxLength + 1) }

CapabilitySamples == { <<>>, <<"*">>, <<"bogus">> }
CapabilityInputs ==
  CapabilitySamples
  \cup Lists({"store/add", "*", "bogus", "Store/Add"}, MaxCapabilities)

ExpirationSamples == { Undefined, Some(0), Some(MaxTime + 1) }
ExpirationInputs ==
  {Undefined} \cup {Some(t) : t \in 0..(MaxTime + OneYear + 1)}

PermissionFormData(grantee, capabilities, expiration) ==
  [grantee |-> grantee, capabilities |-> capabilities, expiration |-> expiration]

\* Every form that takes at least two of its fields from the samples.
FormInputs ==
  { PermissionFormData(g, c, e) :
      g \in GranteeSamples, c \in CapabilitySamples, e \in ExpirationInputs }
  \cup { PermissionFormData(g, c, e) :
      g \in GranteeSamples, c \in CapabilityInputs, e \in ExpirationSamples }
  \cup { PermissionFormData(g, c, e) :
      g \in GranteeInputs, c \in CapabilitySamples, e \in ExpirationSamples }

\* validatePermissionForm(formData) is called.
ValidatePermissionForm ==
  /\ IsDefined(validatorInput) /\ Get(validatorInput).fn = "validatePermissionForm"
  /\ validatorResult = Undefined
  /\ validatorResult' = Some(ValidatorReturn(validatePermissionForm(Get(validatorInput).arg)))
  /\ UNCHANGED <<validatorInput, validatorRepeat, exceptValidators>>

\* validateFileUpload: the limits
maxFiles == 100
maxFileSize == 100 * 1024 * 1024
maxTotalSize == 1024 * 1024 * 1024

\* A File: its name and its size in bytes.
File(name, size) == [name |-> name, size |-> size]

NoFilesSelected == "No files selected"
TooManyFiles == "Cannot upload more than 100 files at once"
\* `Files too large: ${names}. Maximum size is ${formatFileSize(maxFileSize)}`
FilesTooLarge(oversizedFiles) ==
  "Files too large: " \o join([i \in DOMAIN oversizedFiles |-> oversizedFiles[i].name])
  \o ". Maximum size is 100 MB"
\* `Total upload size too large: ${formatFileSize(totalSize)}. Maximum total
\* size is ${formatFileSize(maxTotalSize)}`: the text that names the limit; the
\* rendering of totalSize is left out.
TotalTooLarge == "Total upload size too large. Maximum total size is 1 GB"

\* files.reduce((sum, file) => sum + file.size, 0)
RECURSIVE totalSizeOf(_)
totalSizeOf(files) ==
  IF files = <<>> THEN 0 ELSE files[1].size + totalSizeOf(Tail(files))

\* file.size > maxFileSize
isOversized(file) == file.size > maxFileSize

\* validateFileUpload
validateFileUpload(files) ==
  IF Len(files) = 0 THEN setError(noErrors, "files", NoFilesSelected)
  ELSE LET afterCount == IF Len(files) > maxFiles
                         THEN setError(noErrors, "files", TooManyFiles) ELSE noErrors
           oversizedFiles == SelectSeqBy(files, {f \in Range(files) : isOversized(f)})
           afterSize == IF Len(oversizedFiles) > 0
                        THEN setError(afterCount, "files", FilesTooLarge(oversizedFiles))
                        ELSE afterCount
       IN IF totalSizeOf(files) > maxTotalSize
          THEN setError(afterSize, "files", TotalTooLarge) ELSE afterSize

\* The batches given to validateFileUpload: runs of equal files, alone or two
\* in a row, with sizes and counts at and around the three limits. The sum of
\* a batch stays under 2^31.
FileSizes ==
  { 0, 1, 11 * 1024 * 1024, 24 * 1024 * 1024, 24 * 1024 * 1024 + 1,
    maxFileSize, maxFileSize + 1 }
FileCounts == (0..MaxBatchRun) \cup { 10, maxFiles - 1, maxFiles, maxFiles + 1 }
FileRun(letter, count, size) == [i \in 1..count |-> File(letter \o ToString(i), size)]
FileRuns ==
  { r \in FileCounts \X FileSizes :
      r[1] = 0 \/ r[2] <= (maxTotalSize + 2 * maxFileSize) \div r[1] }
BatchInputs ==
  { FileRun("a", r[1], r[2]) \o FileRun("b", t[1], t[2]) :
      r \in FileRuns, t \in {u \in FileRuns : u[1] <= MaxBatchRun} }

\* validateFileUpload(files) is called.
ValidateFileUpload ==
  /\ IsDefined(validatorInput) /\ Get(validatorInput).fn = "validateFileUpload"
  /\ validatorResult = Undefined
  /\ validatorResult' = Some(ValidatorReturn(validateFileUpload(Get(validatorInput).arg)))
  /\ UNCHANGED <<validatorInput, validatorRepeat, exceptValidators>>

\* The queries given to validateSearchQuery.
SearchQueryInputs ==
  BoxInputs \cup { Repeat("a", MaxQueryLength), Repeat("a", MaxQueryLength + 1),
                   <<"o","n","c","l","i","c","k"," ","=">> }

\* validateSearchQuery(query) is called.
ValidateSearchQuery ==
  /\ IsDefined(validatorInput) /\ Get(validatorInput).fn = "validateSearchQuery"
  /\ validatorResult = Undefined
  /\ validatorResult' = Some(ValidatorReturn(validateSearchQuery(Get(validatorInput).arg)))
  /\ UNCHANGED <<validatorInput, validatorRepeat, exceptValidators>>

\* The validator a call names, applied to the call's argument.
applyValidator(call) ==
  CASE call.fn = "validateSpaceName" -> validateSpaceName(call.arg)
    [] call.fn = "validatePermissionForm" -> validatePermissionForm(call.arg)
    [] call.fn = "validateFileUpload" -> validateFileUpload(call.arg)
    [] call.fn = "validateSearchQuery" -> validateSearchQuery(call.arg)

\* The same validator is called a second time with the same input.
ValidateAgain ==
  /\ IsDefined(validatorResult)
  /\ validatorRepeat = Undefined
  /\ validatorRepeat' = Some(ValidatorReturn(applyValidator(Get(validatorInput))))
  /\ UNCHANGED <<validatorInput, validatorResult, exceptValidators>>

\* ------------------------------------------------------ useFormValidation
\* The fields of the form, and what a validator or a caller gives as message.
FormFields == {"name", "grantee", "query"}
FormMessages == {"", "Required", "Too long"}

\* const newErrors = { ...prev }; delete newErrors[field]
deleteError(errors, field) == SelectSeqBy(errors, {e \in Range(errors) : e.field # field})

\* setFieldError(field, message)
SetFieldError ==
  /\ \E field \in FormFields, message \in FormMessages :
       validationErrors' = setError(validationErrors, field, message)
  /\ UNCHANGED <<lastRun, accounts, canAccessPrivateSpaces, isCheckingAccess,
                 planLookups, accountChanges, exceptHooks>>

\* clearFieldError(field)
ClearFieldError ==
  /\ \E field \in FormFields :
       validationErrors' = deleteError(validationErrors, field)
  /\ UNCHANGED <<lastRun, accounts, canAccessPrivateSpaces, isCheckingAccess,
                 planLookups, accountChanges, exceptHooks>>

\* validateField(field, value, validator): `returned` is what the validator
\* returns for the value.
ValidateField ==
  /\ \E field \in FormFields, returned \in {Undefined} \cup {Some(m) : m \in FormMessages} :
       validationErrors' =
         IF returned # Undefined /\ Get(returned) # ""
         THEN setError(validationErrors, field, Get(returned))
         ELSE deleteError(validationErrors, field)
  /\ UNCHANGED <<lastRun, accounts, canAccessPrivateSpaces, isCheckingAccess,
                 planLookups, accountChanges, exceptHooks>>

\* The errors object validateForm builds: the validators' fields in the
\* order of Object.entries(validators), each with what its validator returns.
RECURSIVE collectErrors(_, _)
collectErrors(fields, outcome) ==
  IF fields = <<>> THEN noErrors
  ELSE LET field == fields[Len(fields)]
           returned == outcome[field]
           errors == collectErrors(SubSeq(fields, 1, Len(fields) - 1), outcome)
       IN IF returned # Undefined /\ Get(returned) # ""
          THEN setError(errors, field, Get(returned))
          ELSE errors

\* validateForm(formData, validators)
ValidateForm ==
  /\ \E fields \in Lists(FormFields, Cardinality(FormFields)),
        outcome \in [FormFields -> {Undefined} \cup {Some(m) : m \in FormMessages}] :
       /\ \A i, j \in DOMAIN fields : i # j => fields[i] # fields[j]
       /\ validationErrors' = collectErrors(fields, outcome)
  /\ UNCHANGED <<lastRun, accounts, canAccessPrivateSpaces, isCheckingAccess,
                 planLookups, accountChanges, exceptHooks>>

\* clearAllValidation()
ClearAllValidation ==
  /\ validationErrors # noErrors
  /\ validationErrors' = noErrors
  /\ UNCHANGED <<lastRun, accounts, canAccessPrivateSpaces, isCheckingAccess,
                 planLookups, accountChanges, exceptHooks>>

\* const hasValidationErrors = Object.keys(validationErrors).length > 0
formHasValidationErrors == Len(validationErrors) > 0

\* ----------------------------------------------------- useSpaceValidation
\* An account, by what its plan.get() answers: { ok: { name: 'free' } },
\* { ok: { name: 'paid' } }, an answer without `ok`, or a rejection.
AccountKinds == {"free", "paid", "noPlan", "failing"}
AccountLists == Lists(AccountKinds, MaxAccounts)

\* !!plan && plan.name !== 'free', for the plan the account's lookup gives
allowsPrivateSpaces(account) == account \notin {"noPlan", "free"}

\* checkPrivateSpaceAccess(), up to its await: the effect of [accounts].
checkPrivateSpaceAccess(list, lookupId) ==
  IF Len(list) = 0
  THEN /\ canAccessPrivateSpaces' = FALSE
       /\ isCheckingAccess' = FALSE
       /\ planLookups' = planLookups
  ELSE /\ planLookups' = planLookups \cup {[id |-> lookupId, account |-> list[1]]}
       /\ UNCHANGED <<canAccessPrivateSpaces, isCheckingAccess>>

\* useW3 hands the hook another accounts array: the effect runs again.
AccountsChange ==
  /\ accountChanges < MaxAccountChanges
  /\ \E list \in AccountLists :
       /\ accounts' = list
       /\ checkPrivateSpaceAccess(list, accountChanges + 1)
  /\ accountChanges' = accountChanges + 1
  /\ UNCHANGED <<validationErrors, lastRun, exceptHooks>>

\* account.plan.get() resolves: the rest of try, then finally.
PlanResolves ==
  /\ \E lookup \in planLookups :
       /\ lookup.account # "failing"
       /\ planLookups' = planLookups \ {lookup}
       /\ canAccessPrivateSpaces' = allowsPrivateSpaces(lookup.account)
  /\ isCheckingAccess' = FALSE
  /\ UNCHANGED <<validationErrors, lastRun, accounts, accountChanges, exceptHooks>>

\* account.plan.get() rejects: catch, then finally.
PlanRejects ==
  /\ \E lookup \in planLookups :
       /\ lookup.account = "failing"
       /\ planLookups' = planLookups \ {lookup}
  /\ canAccessPrivateSpaces' = FALSE
  /\ isCheckingAccess' = FALSE
  /\ UNCHANGED <<validationErrors, lastRun, accounts, accountChanges, exceptHooks>>

\* ------------------------------------------------------------ useThrottle
\* A call of the function useThrottle returns; lastRun.current holds
\* Date.now() of the mount until the first invocation.
UseThrottleCall ==
  /\ Len(callLog) < MaxCalls
  /\ \E args \in CallArgs :
       /\ callLog' = Append(callLog, [at |-> now, args |-> args])
       /\ IF now - lastRun >= ThrottleDelay
          THEN /\ invoked' = Append(invoked, [at |-> now, args |-> args])
               /\ lastRun' = now
          ELSE UNCHANGED <<invoked, lastRun>>
  /\ UNCHANGED <<now, timers, nextTimerId, timeout, inThrottle, validationErrors,
                 accounts, canAccessPrivateSpaces, isCheckingAccess, planLookups,
                 accountChanges, pickerVars, boxVars, opsVars, retryVars, validVars>>

\* ---------------------------------------------------------- specifications
\* SpacePickerSearch after mount.
BoxIdle ==
  /\ localQuery = <<>>
  /\ validationError = Undefined
  /\ searchReported = Undefined
  /\ clearedSince = FALSE

\* useSpaceOperations after mount.
OpsIdle(hasClient) ==
  /\ client = hasClient
  /\ isLoading = FALSE
  /\ error = Undefined
  /\ inflight = {}
  /\ nextCallId = 1
  /\ settled = Undefined

\* useRetry after mount.
RetryIdle ==
  /\ retryPc = "idle"
  /\ attempt = 0
  /\ retryCount = 0
  /\ sleep = 0
  /\ lastError = Undefined
  /\ attemptsMade = 0
  /\ waits = <<>>
  /\ retried = <<>>
  /\ retryRuns = 0
  /\ thrownLog = <<>>
  /\ retryResult = Undefined


\* No validator called.
ValidatorsIdle ==
  /\ validatorInput = Undefined
  /\ validatorResult = Undefined
  /\ validatorRepeat = Undefined

\* useFormValidation, useThrottle and useSpaceValidation (with no accounts)
\* after mount.
HooksIdle ==
  /\ validationErrors = noErrors
  /\ lastRun = 0
  /\ accounts = <<>>
  /\ canAccessPrivateSpaces = FALSE
  /\ isCheckingAccess = FALSE
  /\ planLookups = {}
  /\ accountChanges = 0

\* The hooks' state after mount, for a given `spaces` prop and mode.
PickerMounted(spaceList, multi) ==
  /\ spaces = spaceList
  /\ allowMultiSelect = multi
  /\ searchQuery = <<>>
  /\ filters = defaultFilters
  /\ selectedSpaces = <<>>
  /\ state = initialState
  /\ notified = Undefined
  /\ toggleHist = <<>>

\* No timer set, no wrapper called yet.
TimersIdle ==
  /\ now = 0
  /\ timers = {}
  /\ nextTimerId = 1
  /\ timeout = Undefined
  /\ inThrottle = Undefined
  /\ invoked = <<>>
  /\ callLog = <<>>

\* useSpaceSearch over every list of at most MaxSpaces spaces of the pool.
InitSearchHook ==
  /\ \E spaceList \in Lists(SpacePool, MaxSpaces) : PickerMounted(spaceList, FALSE)
  /\ TimersIdle /\ BoxIdle /\ OpsIdle(TRUE) /\ RetryIdle
  /\ ValidatorsIdle /\ HooksIdle

NextSearchHook == UpdateSearchQuery \/ UpdateFilters \/ ClearSearch

SpecSearchHook == InitSearchHook /\ [][NextSearchHook]_vars

\* The picker provider, in both modes.
InitPicker ==
  /\ \E spaceList \in Lists(PickerPool, MaxPickerSpaces), multi \in BOOLEAN :
       PickerMounted(spaceList, multi)
  /\ TimersIdle /\ BoxIdle /\ OpsIdle(TRUE) /\ RetryIdle
  /\ ValidatorsIdle /\ HooksIdle

NextPicker ==
  \/ ToggleSpaceSelection
  \/ HandleSpaceSelect
  \/ SelectAllSpaces
  \/ ClearSpaceSelection
  \/ SetSelectedSpaces
  \/ SetSearchQuery
  \/ SetFilters
  \/ ClearSearch

SpecPicker == InitPicker /\ [][NextPicker]_vars

InitTimers ==
  /\ PickerMounted(<<>>, FALSE) /\ TimersIdle /\ BoxIdle /\ OpsIdle(TRUE) /\ RetryIdle
  /\ ValidatorsIdle /\ HooksIdle

NextDebounce == DebouncedCall \/ DebounceTimerFires \/ Tick

SpecDebounce == InitTimers /\ [][NextDebounce]_vars

NextThrottle == ThrottledCall \/ ThrottleTimerFires \/ Tick

SpecThrottle == InitTimers /\ [][NextThrottle]_vars

\* The search box inside a provider, with the debounce timer and the clock.
InitSearchBox ==
  /\ \E spaceList \in Lists(PickerPool, 1) : PickerMounted(spaceList, FALSE)
  /\ TimersIdle /\ BoxIdle /\ OpsIdle(TRUE) /\ RetryIdle
  /\ ValidatorsIdle /\ HooksIdle

NextSearchBox == HandleInputChange \/ DebouncedSearch \/ HandleClear \/ Tick

SpecSearchBox == InitSearchBox /\ [][NextSearchBox]_vars

\* useSpaceOperations, with or without a client.
InitOps ==
  /\ PickerMounted(<<>>, FALSE) /\ TimersIdle /\ BoxIdle /\ RetryIdle
  /\ ValidatorsIdle /\ HooksIdle
  /\ \E hasClient \in BOOLEAN : OpsIdle(hasClient)

NextOps == StartOperation \/ ClientResolves \/ ClientRejects \/ DeleteSpace

SpecOps == InitOps /\ [][NextOps]_vars

\* useRetry.
InitRetry ==
  /\ PickerMounted(<<>>, FALSE) /\ TimersIdle /\ BoxIdle /\ OpsIdle(TRUE) /\ RetryIdle
  /\ ValidatorsIdle /\ HooksIdle

NextRetry ==
  ExecuteWithRetry \/ AttemptResolves \/ AttemptRejects \/ SecondPasses \/ NextAttempt

SpecRetry == InitRetry /\ [][NextRetry]_vars

\* The validators: one call, of any validator on any of its inputs, at any
\* time of the clock.
ValidatorInputs ==
  { ValidatorCall("validateSpaceName", name) : name \in NameInputs }
  \cup { ValidatorCall("validatePermissionForm", form) : form \in FormInputs }
  \cup { ValidatorCall("validateFileUpload", files) : files \in BatchInputs }
  \cup { ValidatorCall("validateSearchQuery", query) : query \in SearchQueryInputs }

InitValidators ==
  /\ PickerMounted(<<>>, FALSE) /\ TimersIdle /\ BoxIdle /\ OpsIdle(TRUE) /\ RetryIdle
  /\ HooksIdle
  /\ validatorInput \in {Some(call) : call \in ValidatorInputs}
  /\ validatorResult = Undefined
  /\ validatorRepeat = Undefined

NextValidators ==
  \/ ValidateSpaceName
  \/ ValidatePermissionForm
  \/ ValidateFileUpload
  \/ ValidateSearchQuery
  \/ ValidateAgain
  \/ Tick

SpecValidators == InitValidators /\ [][NextValidators]_vars

\* useFormValidation.
InitFormValidation ==
  /\ PickerMounted(<<>>, FALSE) /\ TimersIdle /\ BoxIdle /\ OpsIdle(TRUE) /\ RetryIdle
  /\ ValidatorsIdle /\ HooksIdle

NextFormValidation ==
  SetFieldError \/ ClearFieldError \/ ValidateField \/ ValidateForm \/ ClearAllValidation

SpecFormValidation == InitFormValidation /\ [][NextFormValidation]_vars

\* useSpaceValidation after mount, its effect having run up to the await:
\* useState(false), useState(true), then checkPrivateSpaceAccess().
InitSpaceValidation ==
  /\ PickerMounted(<<>>, FALSE) /\ TimersIdle /\ BoxIdle /\ OpsIdle(TRUE) /\ RetryIdle
  /\ ValidatorsIdle
  /\ validationErrors = noErrors
  /\ lastRun = 0
  /\ accountChanges = 0
  /\ canAccessPrivateSpaces = FALSE
  /\ \E list \in AccountLists :
       /\ accounts = list
       /\ isCheckingAccess = (Len(list) # 0)
       /\ planLookups = IF Len(list) = 0 THEN {}
                        ELSE {[id |-> 0, account |-> list[1]]}

NextSpaceValidation == AccountsChange \/ PlanResolves \/ PlanRejects

SpecSpaceValidation == InitSpaceValidation /\ [][NextSpaceValidation]_vars

\* Every plan lookup gets its answer.
FairSpaceValidation ==
  SpecSpaceValidation /\ WF_vars(PlanResolves) /\ WF_vars(PlanRejects)

\* useThrottle, mounted at time 0, with the clock.
NextUseThrottle == UseThrottleCall \/ Tick

SpecUseThrottle == InitTimers /\ [][NextUseThrottle]_vars

\* ------------------------------------------------------------------ claims
BagOf(list) == [x \in Range(list) |-> Cardinality({i \in DOMAIN list : list[i] = x})]

\* The options object that hands the hook's state to filterSpaces.
helperOpts ==
  [query |-> Some(searchQuery), accessType |-> Some(filters.accessType),
   sortBy |-> Some(filters.sortBy), sortOrder |-> Some(filters.sortOrder)]

lastToggle == toggleHist[Len(toggleHist)]

\* C1: in a picker created with allowMultiSelect = false, after any sequence
\* of the context's selection operations at most one space is selected.
C1_SingleSelectAtMostOne ==
  ~allowMultiSelect => Len(state.selectedSpaces) <= 1

\* C2: toggling the same did() twice in a row leaves the set of selected ids
\* what it was before the first toggle, in both modes; the same holds of the
\* reducer's TOGGLE_SPACE_SELECTION on every reachable reducer state.
C2_ToggleSelfInverse ==
  /\ Len(toggleHist) = 2 => Dids(state.selectedSpaces) = Dids(toggleHist[1].before)
  /\ \A space \in Range(spaces) :
       LET toggle == [type |-> "TOGGLE_SPACE_SELECTION", payload |-> space]
       IN Dids(spacePickerReducer(spacePickerReducer(state, toggle), toggle).selectedSpaces)
            = Dids(state.selectedSpaces)

C2_Witness ==
  /\ ~allowMultiSelect
  /\ Len(toggleHist) = 2
  /\ toggleHist[1].before # <<>>
  /\ toggleHist[1].did \notin Dids(toggleHist[1].before)

\* C3: in single-select mode, toggling an unselected id while another id is
\* selected leaves exactly the new id selected, and toggling the selected id
\* leaves nothing selected.
C3_SingleSelectReplaces ==
  (~allowMultiSelect /\ toggleHist # <<>>) =>
    /\ (lastToggle.did \notin Dids(lastToggle.before) /\ lastToggle.before # <<>>)
         => Dids(state.selectedSpaces) = {lastToggle.did}
    /\ lastToggle.did \in Dids(lastToggle.before) => state.selectedSpaces = <<>>

\* C9: with accessType = all and an empty query the filter returns a
\* permutation of its input, for every sortBy and sortOrder.
C9_FilterAllIsPermutation ==
  (filters.accessType = "all" /\ searchQuery = <<>>) =>
    /\ BagOf(currentFiltered) = BagOf(spaces)
    /\ BagOf(filterSpaces(spaces, helperOpts)) = BagOf(spaces)

C9_Witness ==
  /\ filters.accessType = "all" /\ searchQuery = <<>>
  /\ filters.sortOrder = "desc"
  /\ Len(spaces) = MaxSpaces
  /\ currentFiltered # spaces
  /\ \E i, j \in DOMAIN spaces : i # j /\ spaces[i] = spaces[j]

\* C10: with accessType public or private the filter keeps exactly the input
\* spaces whose access.type is that value; a space of the other type, or with
\* no access attribute, is never in the output.
C10_AccessFilterExact ==
  filters.accessType # "all" =>
    LET wanted == {s \in Range(spaces) : s.access = Some(filters.accessType)}
        hook == currentFiltered
        helper == filterSpaces(spaces, helperOpts)
    IN /\ Range(hook) \subseteq wanted
       /\ Range(helper) \subseteq wanted
       /\ searchQuery = <<>> =>
            /\ BagOf(hook) = BagOf(SelectSeqBy(spaces, wanted))
            /\ BagOf(helper) = BagOf(SelectSeqBy(spaces, wanted))

C10_Witness ==
  /\ filters.accessType = "private"
  /\ searchQuery = <<>>
  /\ currentFiltered # <<>>
  /\ \E s \in Range(spaces) : s.access = Some("public")
  /\ \E s \in Range(spaces) : s.access = Undefined

\* The last call of a burst: no call follows it within the wait.
burstEnd(i) == i = Len(callLog) \/ callLog[i + 1].at - callLog[i].at >= DebounceWait

\* The calls whose timer has run by now.
debounceRan(i) ==
  \/ callLog[i].at + DebounceWait < now
  \/ callLog[i].at + DebounceWait = now /\ ~timerDue

\* C4: each burst of calls less than the wait apart invokes the function
\* exactly once, the wait after the burst's last call, with that call's
\* arguments; no other call invokes it; at most one timer is pending.
C4_DebounceOncePerBurst ==
  /\ invoked = [k \in DOMAIN SelectSeqBy([i \in DOMAIN callLog |-> i],
                                         {i \in DOMAIN callLog : burstEnd(i) /\ debounceRan(i)})
                  |-> LET i == SelectSeqBy([j \in DOMAIN callLog |-> j],
                                 {j \in DOMAIN callLog : burstEnd(j) /\ debounceRan(j)})[k]
                      IN [at |-> callLog[i].at + DebounceWait, args |-> callLog[i].args]]
  /\ Cardinality(timers) <= 1

C4_Witness ==
  /\ Len(invoked) = 2
  /\ \E i \in DOMAIN callLog :
       /\ i + 2 <= Len(callLog)
       /\ ~burstEnd(i) /\ ~burstEnd(i + 1) /\ burstEnd(i + 2)
       /\ callLog[i + 1].at > callLog[i].at
       /\ callLog[i + 2].args # callLog[i + 1].args
       /\ invoked[Len(invoked)] = [at |-> callLog[i + 2].at + DebounceWait,
                                   args |-> callLog[i + 2].args]

\* What a leading-edge throttle invokes for the calls up to the n-th: a call
\* invokes iff no invocation came less than the limit before it.
RECURSIVE throttleExpected(_)
throttleExpected(n) ==
  IF n = 0 THEN <<>>
  ELSE LET before == throttleExpected(n - 1)
       IN IF before = <<>> \/ callLog[n].at - before[Len(before)].at >= ThrottleLimit
          THEN Append(before, callLog[n])
          ELSE before

\* C5: a throttled call invokes the function, at once and with its own
\* arguments, iff no invocation happened within the limit before it; a dropped
\* call never causes a later invocation.
C5_ThrottleLeadingEdge ==
  invoked = throttleExpected(Len(callLog))

C5_Witness ==
  /\ Len(invoked) = 2
  /\ Len(callLog) = 4
  /\ callLog[2].at < ThrottleLimit
  /\ now > invoked[2].at + ThrottleLimit

\* C6: after clear (or Escape) the input's value and the context's search
\* query are empty and stay empty until the user changes the input again, also
\* when a debounced update was pending at the moment of the clear.
C6_ClearStaysCleared ==
  clearedSince => (localQuery = <<>> /\ state.searchQuery = <<>>)

backoffTable == <<1, 2, 4>>

\* The waits that are over.
waitsDone == IF retryPc = "waiting" THEN Len(waits) - 1 ELSE Len(waits)

\* C8 as stated: one executeWithRetry call makes at most 3 attempts, rejects
\* with the last error after the third, and waits 2^a seconds after failed
\* attempt a.
C8_ThreeAttempts ==
  /\ attemptsMade <= 3
  /\ retryPc = "rejected" =>
       /\ attemptsMade = 3
       /\ retryResult = Some(caughtError(thrownLog[Len(thrownLog)], "asyncFn"))
  /\ \A a \in 1..waitsDone : waits[a] = backoffTable[a]

\* C8 amended: one executeWithRetry call makes at most maxRetries + 1 = 4
\* attempts (the first and 3 retries), rejects with the last error after the
\* fourth, and waits 2^a seconds after failed attempt a, for a = 0, 1, 2.
C8_FourAttempts ==
  /\ attemptsMade <= 4
  /\ Len(thrownLog) <= attemptsMade
  /\ retryPc = "rejected" =>
       /\ attemptsMade = 4
       /\ Len(thrownLog) = 4
       /\ retryResult = Some(IF thrownLog[4].isError THEN thrownLog[4]
                             ELSE Error("An unexpected error occurred"))
       /\ waits = backoffTable
  /\ \A a \in 1..waitsDone : waits[a] = backoffTable[a]
  /\ retryPc = "attempting" => Len(waits) = attemptsMade - 1

C8_Witness ==
  /\ retryPc = "rejected"
  /\ retryRuns = 1
  /\ ~thrownLog[Len(thrownLog)].isError
  /\ thrownLog[1].isError

\* ------------------------------------------------------- filter/sort claims
\* q is a substring of s.
isSubstring(q, s) == \E i, j \in 0..Len(s) : SubSeq(s, i + 1, j) = q

\* The spaces of the input that the query keeps, as C11 states it.
queryKeeps ==
  LET q == toLowerCase(searchQuery)
  IN { s \in Range(spaces) :
         \/ IsDefined(s.name) /\ isSubstring(q, toLowerCase(Get(s.name)))
         \/ isSubstring(q, toLowerCase(s.did)) }

\* The spaces of the input that the access filter keeps.
accessKeeps ==
  IF filters.accessType = "all" THEN Range(spaces)
  ELSE { s \in Range(spaces) : s.access = Some(filters.accessType) }

\* C11: with a non-empty query a space is kept iff the lower-cased query is a
\* substring of its lower-cased name (when it has one) or of its lower-cased
\* did(); a space with no name is kept only when its did() matches.
C11_QueryMatching ==
  searchQuery # <<>> =>
    LET kept == SelectSeqBy(spaces, queryKeeps \cap accessKeeps)
    IN /\ BagOf(currentFiltered) = BagOf(kept)
       /\ BagOf(filterSpaces(spaces, helperOpts)) = BagOf(kept)

C11_Witness ==
  /\ searchQuery = <<"A","P">>
  /\ filters.accessType = "all"
  /\ \E s \in Range(currentFiltered) : s.name = Some(<<"a","p","p","l","e">>)
  /\ \E s \in Range(currentFiltered) : s.name = Some(<<"A","p","p","l","e">>)
  /\ \E s \in Range(spaces) : s.name = Undefined /\ s \notin Range(currentFiltered)

\* The case-insensitive sort key C12 names: the name, or the shortened
\* identifier of a space that has no name.
sortKey(s) == toLowerCase(nameOr(s, shortenDID(s.did)))

\* The keys along `list` never go down (asc) or never go up (desc).
keysOrdered(list, sortOrder) ==
  \A i \in 1..(Len(list) - 1) :
    LET c == localeCompare(sortKey(list[i]), sortKey(list[i + 1]))
    IN IF sortOrder = "desc" THEN c >= 0 ELSE c <= 0

\* C12: with sortBy = name the output is ordered by the case-insensitive sort
\* key of each space (its name, or its shortened identifier when it has no
\* name): non-decreasing for asc, non-increasing for desc.
C12_NameOrder ==
  filters.sortBy = "name" =>
    /\ keysOrdered(currentFiltered, filters.sortOrder)
    /\ keysOrdered(filterSpaces(spaces, helperOpts), filters.sortOrder)

\* C13: with sortBy = created or usage, for asc and desc alike, the output is
\* the spaces that pass the query and access filters, in their input order.
C13_NoOpOrder ==
  filters.sortBy \in {"created", "usage"} =>
    LET kept == SelectSeqBy(spaces,
                  (IF searchQuery = <<>> THEN Range(spaces) ELSE queryKeeps) \cap accessKeeps)
    IN /\ currentFiltered = kept
       /\ filterSpaces(spaces, helperOpts) = kept

C13_Witness ==
  /\ filters.sortBy = "created"
  /\ filters.sortOrder = "desc"
  /\ searchQuery # <<>>
  /\ Len(currentFiltered) = 2
  /\ Len(spaces) = 3
  /\ hookCompare(currentFiltered[1], currentFiltered[2], "name", "asc") > 0

\* C14: sorting by name is idempotent: with sortBy = name and either
\* sortOrder, the filter applied to its own output with the same options
\* returns that output.
C14_NameSortIdempotent ==
  filters.sortBy = "name" =>
    /\ filteredSpaces(currentFiltered, searchQuery, filters) = currentFiltered
    /\ filterSpaces(filterSpaces(spaces, helperOpts), helperOpts)
         = filterSpaces(spaces, helperOpts)

C14_Witness ==
  /\ filters.sortBy = "name"
  /\ filters.sortOrder = "desc"
  /\ Len(currentFiltered) = 3
  /\ currentFiltered # spaces
  /\ \E i \in 1..2 : /\ currentFiltered[i] # currentFiltered[i + 1]
                     /\ hookCompare(currentFiltered[i], currentFiltered[i + 1], "name", "asc") = 0

\* --------------------------------------------------------- selection claims
\* C15: with count the number of selected spaces (as the context shows them)
\* and total the length of the list the selection hook was given, allSelected
\* is true iff count = total and total > 0, someSelected is true iff
\* 0 < count < total, and the two are never true together.
C15_AllSomeSelected ==
  LET count == Len(state.selectedSpaces)
      total == Len(currentFiltered)
  IN /\ allSelected <=> (count = total /\ total > 0)
     /\ someSelected <=> (0 < count /\ count < total)
     /\ ~(allSelected /\ someSelected)

C15_Witness ==
  /\ allSelected
  /\ selectedCount = 2
  /\ searchQuery # <<>>
  /\ Len(spaces) = 2

noTwoWithSameDid(list) ==
  \A i, j \in DOMAIN list : list[i].did = list[j].did => i = j

\* C16: selection goes by did() only. Two space objects with the same did()
\* get the same answer from isSpaceSelected in every state; a toggle of a
\* space whose did() is selected (through whichever object) leaves that did()
\* unselected; and a toggle never turns a selection without two entries of
\* one did() into one with two, so that no sequence of toggles from the empty
\* selection produces such entries.
C16_IdentityByDid ==
  /\ \A a, b \in PickerPool : a.did = b.did => (isSpaceSelected(a) <=> isSpaceSelected(b))
  /\ toggleHist # <<>> =>
       /\ lastToggle.did \in Dids(lastToggle.before)
            => lastToggle.did \notin Dids(selectedSpaces)
       /\ noTwoWithSameDid(lastToggle.before) => noTwoWithSameDid(selectedSpaces)

C16_Witness ==
  /\ toggleHist # <<>>
  /\ Len(lastToggle.before) = 1
  /\ lastToggle.before[1].did = lastToggle.did
  /\ lastToggle.before[1].ref # lastToggle.ref
  /\ selectedSpaces = <<>>

\* C17: selectAllSpaces replaces the selection: whatever was selected before,
\* after it the set of selected ids is the set of ids of the list given to the
\* selection hook (the filtered spaces; the call changes neither the spaces,
\* the query nor the filters, so it is the same list before and after) and
\* count = total.
C17_SelectAllReplaces ==
  [][selectAllSpaces =>
       /\ Dids(state'.selectedSpaces) = Dids(currentFiltered)
       /\ Len(selectedSpaces') = Len(currentFiltered)
       /\ Len(state'.selectedSpaces) = Len(currentFiltered)]_vars

C17_Witness ==
  /\ Len(selectedSpaces) = 2
  /\ selectedSpaces = currentFiltered
  /\ Cardinality(Dids(selectedSpaces)) = 1
  /\ allSelected

\* --------------------------------------------------------- validator claims
\* The validator call that has returned, if one has.
returned(fn) ==
  IsDefined(validatorInput) /\ Get(validatorInput).fn = fn /\ IsDefined(validatorResult)
theInput == Get(validatorInput).arg
theErrors == Get(validatorResult).errors

\* The fields of an error map and the message of one field.
fieldsOf(errors) == {errors[i].field : i \in DOMAIN errors}
messageOf(errors, field) ==
  (CHOOSE e \in Range(errors) : e.field = field).message

\* C18: validateSpaceName returns the empty map iff the trimmed name is
\* non-empty, has at most 100 characters, consists only of letters, digits,
\* whitespace, '-', '_' and '.', and is not, whatever its case, one of admin,
\* root, system, api, www, mail, ftp; otherwise the map has exactly the key
\* name, and a name that breaks one rule only gets that rule's message.
C18_SpaceNameRules ==
  returned("validateSpaceName") =>
    LET t == trim(theInput)
        blank == t = <<>>
        tooLong == Len(t) > 100
        badChars == \E i \in DOMAIN t :
                      t[i] \notin Range(Uppers) \cup Range(Lowers) \cup Range(Digits)
                                  \cup {" ", "\t", "\n", "-", "_", "."}
        reserved == \E r \in reservedNames : toLowerCase(t) = r
        only(rule) == rule = {r \in {"blank", "tooLong", "badChars", "reserved"} :
                                \/ r = "blank" /\ blank
                                \/ r = "tooLong" /\ tooLong
                                \/ r = "badChars" /\ badChars
                                \/ r = "reserved" /\ reserved}
    IN /\ theErrors = noErrors <=> ~(blank \/ tooLong \/ badChars \/ reserved)
       /\ theErrors # noErrors =>
            /\ fieldsOf(theErrors) = {"name"} /\ Len(theErrors) = 1
            /\ hasValidationErrors(theErrors)
       /\ only({"blank"}) => messageOf(theErrors, "name") = Some(NameRequired)
       /\ only({"tooLong"}) => messageOf(theErrors, "name") = Some(NameTooLong)
       /\ only({"badChars"}) => messageOf(theErrors, "name") = Some(NameBadChars)
       /\ only({"reserved"}) => messageOf(theErrors, "name") = Some(NameReserved)

C18_Witness ==
  /\ returned("validateSpaceName")
  /\ theInput = <<" ","R","O","O","T"," ">>
  /\ messageOf(theErrors, "name") = Some(NameReserved)

\* A field has an error: the map has it with a message that is not empty.
hasError(errors, field) ==
  \E i \in DOMAIN errors :
    errors[i].field = field /\ errors[i].message # Undefined /\ errors[i].message # Some("")

messagesOf(errors) == {errors[i].message : i \in DOMAIN errors}

\* C20: validateFileUpload returns an error for every batch that is empty, has
\* more than 100 files, holds a file larger than 100MB, or whose sizes add up
\* to more than 1GB, and none for any other batch; each limit has its own
\* message, and a batch that breaks several limits is given the message of
\* each of them.
C20_FileUploadLimits ==
  returned("validateFileUpload") =>
    LET files == theInput
        empty == Len(files) = 0
        tooMany == Len(files) > 100
        oversized == {i \in DOMAIN files : files[i].size > 100 * 1024 * 1024}
        tooBig == totalSizeOf(files) > 1024 * 1024 * 1024
        told(message) == Some(message) \in messagesOf(theErrors)
    IN /\ hasValidationErrors(theErrors) <=> (empty \/ tooMany \/ oversized # {} \/ tooBig)
       /\ empty => told(NoFilesSelected)
       /\ tooMany => told(TooManyFiles)
       /\ oversized # {} =>
            told(FilesTooLarge(SelectSeqBy(files, {files[i] : i \in oversized})))
       /\ tooBig => told(TotalTooLarge)

\* C20 without its last clause: an error iff a limit is broken.
C20_ErrorIffLimitBroken ==
  returned("validateFileUpload") =>
    LET files == theInput
    IN hasValidationErrors(theErrors) <=>
         \/ Len(files) = 0
         \/ Len(files) > 100
         \/ \E i \in DOMAIN files : files[i].size > 100 * 1024 * 1024
         \/ totalSizeOf(files) > 1024 * 1024 * 1024

\* C21: every validator is deterministic and free of side effects: two calls
\* with equal input return equal error maps whenever they are made, and the
\* input is left as it was.
C21_ValidatorsPure ==
  IsDefined(validatorRepeat) =>
    Get(validatorRepeat).errors = Get(validatorResult).errors

\* C21 for the validators that do not read the clock.
C21_PureButPermissionForm ==
  (IsDefined(validatorRepeat) /\ Get(validatorInput).fn # "validatePermissionForm") =>
    Get(validatorRepeat).errors = Get(validatorResult).errors

\* --------------------------------------------------- error-presence claims
\* Some field of the map holds a non-empty message.
someFieldFails(errors) ==
  \E field \in fieldsOf(errors) : messageOf(errors, field) \notin {Undefined, Some("")}

\* C22: an absent, undefined or empty entry counts as no error in every
\* error-presence check: hasValidationErrors is true iff some field holds a
\* non-empty message, getFirstValidationError returns a message iff
\* hasValidationErrors is true, and the hasValidationErrors flag of
\* useFormValidation follows the same rule after any sequence of calls.
C22_EmptyMeansNoError ==
  /\ hasValidationErrors(validationErrors) <=> someFieldFails(validationErrors)
  /\ IsDefined(getFirstValidationError(validationErrors))
       <=> hasValidationErrors(validationErrors)
  /\ formHasValidationErrors <=> someFieldFails(validationErrors)

\* The two helpers of validationHelpers alone follow the rule, on every map
\* the form hook can hold.
C22_HelpersFollowRule ==
  /\ hasValidationErrors(validationErrors) <=> someFieldFails(validationErrors)
  /\ IsDefined(getFirstValidationError(validationErrors))
       <=> hasValidationErrors(validationErrors)
  /\ IsDefined(getFirstValidationError(validationErrors)) =>
       Get(getFirstValidationError(validationErrors)) # ""

\* ------------------------------------------------------- search-box claims
\* The debounce timer tm of the search box runs in this step.
debounceRuns(tm) ==
  /\ tm.owner = "debounce"
  /\ tm.due <= now
  /\ timers' = timers \ {tm}

\* C23: when the debounced query fails validation, the context's search
\* query keeps its value, onSearchChange is not called and the validation
\* message is set; when it passes, the validation error is cleared and the
\* context's search query becomes the validated value.
C23_FailedQueryStopsLocally ==
  [][\A tm \in timers : debounceRuns(tm) =>
       LET checked == validateAndSanitizeSearchQuery(tm.args)
       IN IF hasValidationErrors(checked.errors)
          THEN /\ searchQuery' = searchQuery
               /\ state'.searchQuery = state.searchQuery
               /\ searchReported' = Undefined
               /\ validationError' \in {Some(QueryTooLong), Some(QueryInvalid)}
          ELSE /\ validationError' = Undefined
               /\ searchQuery' = checked.value
               /\ state'.searchQuery = checked.value]_vars

\* A query was accepted, then a later one was refused.
C23_Witness ==
  /\ validationError = Some(QueryInvalid)
  /\ searchQuery = <<"a","p">>
  /\ state.searchQuery = <<"a","p">>
  /\ localQuery = <<"j","a","v","a","s","c","r","i","p","t",":">>
  /\ timers = {}

\* C24: the two implementations of the filter/sort engine agree: for every
\* list of spaces, query and filter options, the hook's filteredSpaces is the
\* same sequence as filterSpaces(spaces, {query, accessType, sortBy,
\* sortOrder}), spaces without a name included.
C24_HookAgreesWithHelper ==
  currentFiltered = filterSpaces(spaces, helperOpts)

\* The two agree whenever at most one space of the list has no name.
C24_AgreeWithOneNameless ==
  Cardinality({i \in DOMAIN spaces : spaces[i].name \in {Undefined, Some(<<>>)}}) <= 1 =>
    currentFiltered = filterSpaces(spaces, helperOpts)

\* ------------------------------------------------------- overlapping calls
\* C25: isLoading is true in every state in which at least one createSpace /
\* setCurrentSpace / deleteSpace call has started and not yet settled, also
\* when two calls overlap and one settles before the other.
C25_LoadingWhileInFlight ==
  inflight # {} => isLoading

\* The error state is cleared only by the first statements of a call: no
\* call clears a failure that was recorded after that call had started.
C25_ErrorClearedOnlyAtStart ==
  [][(error # Undefined /\ error' = Undefined) =>
       /\ nextCallId' = nextCallId + 1
       /\ \E c \in inflight' : c.id = nextCallId]_vars

\* ------------------------------------------------- selection and filtering
\* C26: after any sequence of toggle, selectAll, clear, query changes and
\* filter changes, every selected space is in the currently filtered list,
\* selectedCount is at most the number of filtered spaces, and allSelected
\* is true only when every space of the filtered list is selected.
C26_SelectionWithinFiltered ==
  /\ Dids(selectedSpaces) \subseteq Dids(currentFiltered)
  /\ selectedCount <= Len(currentFiltered)
  /\ allSelected => \A i \in DOMAIN currentFiltered : isSpaceSelected(currentFiltered[i])

\* allSelected alone: true only when the filtered list has as many spaces as
\* are selected.
C26_AllSelectedCounts ==
  allSelected => selectedCount = Len(currentFiltered)

\* The part of C26 about allSelected.
C26_AllSelectedCoversFiltered ==
  allSelected => \A i \in DOMAIN currentFiltered : isSpaceSelected(currentFiltered[i])

\* C27: setSelectedSpaces(S) makes the selection equal to S: after it the
\* set of selected ids is the set of ids in S, for every list S of spaces
\* drawn from the filtered list (empty, partial or complete).
C27_SetSelectedSpacesSets ==
  [][\A list \in SubLists(currentFiltered) :
       setSelectedSpaces(list) => Dids(selectedSpaces') = Dids(list)]_vars

\* It does so for the empty list and for lists as long as the filtered list.
C27_EmptyOrComplete ==
  [][\A list \in SubLists(currentFiltered) :
       (setSelectedSpaces(list) /\ Len(list) \in {0, Len(currentFiltered)})
         => Dids(selectedSpaces') = Dids(list)]_vars

\* ------------------------------------------------------ access-check claims
\* What the newest accounts give: no account, no access; else the plan of
\* the first account (a failed lookup gives no access).
accessOfNewestAccounts ==
  Len(accounts) # 0 /\ accounts[1] = "paid"

\* C28: isCheckingAccess is true whenever a plan lookup is in flight, and
\* once no lookup is in flight the check has finished and
\* canAccessPrivateSpaces is the value derived from the newest accounts, also
\* when accounts changed while an earlier lookup was in flight.
C28_CheckReflectsLatestAccounts ==
  /\ planLookups # {} => isCheckingAccess
  /\ planLookups = {} =>
       /\ ~isCheckingAccess
       /\ canAccessPrivateSpaces = accessOfNewestAccounts

\* On every path the check finishes: isCheckingAccess becomes false.
C28_CheckFinishes == <>(~isCheckingAccess)

\* While accounts has not changed since mount, the claim's two state parts
\* hold.
C28_HoldsBeforeAccountsChange ==
  accountChanges = 0 =>
    /\ planLookups # {} => isCheckingAccess
    /\ planLookups = {} =>
         /\ ~isCheckingAccess
         /\ canAccessPrivateSpaces = accessOfNewestAccounts

\* ------------------------------------------------------ useThrottle claims
\* What a leading-edge throttle invokes of the first n calls: the first
\* call, and then every call made at least ThrottleDelay after the last
\* invocation.
RECURSIVE leadingEdge(_)
leadingEdge(n) ==
  IF n = 0 THEN <<>>
  ELSE LET before == leadingEdge(n - 1)
       IN IF before = <<>> \/ callLog[n].at - before[Len(before)].at >= ThrottleDelay
          THEN Append(before, callLog[n])
          ELSE before

\* C29: the function useThrottle returns is a leading-edge throttle: the
\* first call after mount invokes the callback at once, and afterwards a call
\* invokes it iff at least delay have passed since the last invocation, so
\* that any two invocations are at least delay apart.
C29_LeadingEdgeThrottle ==
  /\ invoked = leadingEdge(Len(callLog))
  /\ \A i, j \in DOMAIN invoked : i < j => invoked[j].at - invoked[i].at >= ThrottleDelay

\* Any two invocations are at least delay apart.
C29_InvocationsApart ==
  \A i, j \in DOMAIN invoked : i < j => invoked[j].at - invoked[i].at >= ThrottleDelay

\* From the first call made delay or more after the mount, the calls are
\* invoked as a leading-edge throttle invokes them.
C29_LeadingEdgeAfterDelay ==
  (callLog # <<>> /\ callLog[1].at >= ThrottleDelay) => invoked = leadingEdge(Len(callLog))

\* ------------------------------------------------------- script-tag claims
\* The query contains '<script', in any letter case.
hasScriptTag(query) == includes(toLowerCase(query), <<"<","s","c","r","i","p","t">>)

\* C30: every query that contains '<script' is refused with 'Search query
\* contains invalid characters' on the path of the search box
\* (validateAndSanitizeSearchQuery), as validateSearchQuery refuses the raw
\* string, and it does not reach the context's search query.
C30_ScriptTagRefused ==
  [][\A tm \in timers : (debounceRuns(tm) /\ hasScriptTag(tm.args)) =>
       /\ getFirstValidationError(validateSearchQuery(tm.args)) = Some(QueryInvalid)
       /\ getFirstValidationError(validateAndSanitizeSearchQuery(tm.args).errors)
            = Some(QueryInvalid)
       /\ validationError' = Some(QueryInvalid)
       /\ searchQuery' = searchQuery
       /\ state'.searchQuery = state.searchQuery]_vars

\* validateSearchQuery refuses the raw string.
C30_RawValidatorRefuses ==
  (returned("validateSearchQuery") /\ hasScriptTag(theInput)) =>
    getFirstValidationError(theErrors) = Some(QueryInvalid)

====
